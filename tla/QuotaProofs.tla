----------------------------- MODULE QuotaProofs -----------------------------
(***************************************************************************)
(* The quota tracker implements its ideal: discarding events as the clock  *)
(* passes them, carrying the rest through reloads and snapshots and        *)
(* counting what is left, it decides as if it had kept everything.  And    *)
(* the times it works out are the right ones: a period starts and ends     *)
(* where its schedule strikes, and a client that is told when to retry is  *)
(* refused until then and admitted at that time.                           *)
(***************************************************************************)
EXTENDS QuotaWindows, FiniteSetTheorems, WellFoundedInduction, TLAPS

(* Zenon finds the proof of a leaf that does not name a prover.            *)
USE Zenon

Times == StartTime .. Horizon
Schedules == {s \in UNION {SchedulesOf(c) : c \in QuotaConfigs} : s.period # ""}
Given(s) == s.period # ""
UsageEvents == [at : Int, requests : Nat, tokens : Nat, cost : Nat]

-----------------------------------------------------------------------------
(* The clock starts before it stops, and the horizon is after that.        *)
LEMMA QuotaTimes ==
  /\ StartTime \in Int /\ MaxTime \in Int /\ Horizon \in Int
  /\ StartTime <= MaxTime /\ MaxTime <= Horizon
  /\ \A t \in Times : t \in Int
  /\ \A t \in StartTime .. MaxTime : t \in Times /\ t \in Int /\ t <= MaxTime
<1>1. /\ StartTime \in Int /\ MaxTime \in Int /\ Horizon \in Int
      /\ StartTime <= MaxTime /\ MaxTime + 6 <= Horizon
  BY QuotaAssumption, HorizonAssumption
<1> QED BY SMT, <1>1 DEF Times

(* Rounding down: the multiple of d that starts the stretch delta is in.   *)
LEMMA FloorIsFloor ==
  ASSUME NEW delta \in Int, NEW d \in Nat \ {0}
  PROVE  /\ floorDuration(delta, d) \in Int
         /\ floorDuration(delta, d) * d <= delta
         /\ delta < floorDuration(delta, d) * d + d
<1>1. CASE delta >= 0
  <2> DEFINE q == delta \div d
  <2>1. q \in Int /\ q * d <= delta /\ delta < q * d + d
    BY SMT, <1>1
  <2> QED BY SMT, <1>1, <2>1 DEF floorDuration
<1>2. CASE delta < 0
  <2> DEFINE e == -delta
             q == e \div d
  <2>0. e \in Nat BY SMT, <1>2
  <2>1. q \in Int /\ q * d <= e /\ e < q * d + d
    BY SMT, <2>0
  <2> HIDE DEF e
  <2> QED BY SMT, <1>2, <2>1 DEF floorDuration
<1> QED BY SMT, <1>1, <1>2

(* A time is on one day of the calendar, and the days around that one are  *)
(* days of the calendar too.                                               *)
LEMMA DayOfOK ==
  /\ \A d \in Days : d \in Int /\ Midnight(d) \in Int /\ Midnight(d + 1) \in Int
  /\ \A d \in Days, t \in Int : Midnight(d) <= t /\ t < Midnight(d + 1) => DayOf(t) = d
  /\ \A t \in Times : /\ DayOf(t) \in Days /\ Midnight(DayOf(t)) <= t /\ t < Midnight(DayOf(t) + 1)
                      /\ \A e \in Int : DayOf(t) - 13 <= e /\ e <= DayOf(t) + 7 => e \in Days
<1>1. \A d \in Days : d \in Int /\ Midnight(d) \in Int /\ Midnight(d + 1) \in Int
  BY CalendarAssumption
<1>2. ASSUME NEW d \in Days, NEW e \in Days, NEW t \in Int, Midnight(d) <= t, t < Midnight(d + 1),
             Midnight(e) <= t, t < Midnight(e + 1)
      PROVE  d = e
  <2>1. /\ d < e => Midnight(d + 1) <= Midnight(e)
        /\ e < d => Midnight(e + 1) <= Midnight(d)
    BY CalendarAssumption
  <2> QED BY SMT, <1>1, <1>2, <2>1
<1>3. ASSUME NEW d \in Days, NEW t \in Int, Midnight(d) <= t, t < Midnight(d + 1)
      PROVE  DayOf(t) = d
  <2>1. DayOf(t) \in Days /\ Midnight(DayOf(t)) <= t /\ t < Midnight(DayOf(t) + 1)
    BY <1>3 DEF DayOf
  <2> QED BY <1>2, <1>3, <2>1
<1>4. ASSUME NEW t \in Times
      PROVE  /\ DayOf(t) \in Days /\ Midnight(DayOf(t)) <= t /\ t < Midnight(DayOf(t) + 1)
             /\ \A e \in Int : DayOf(t) - 13 <= e /\ e <= DayOf(t) + 7 => e \in Days
  <2>1. PICK d \in Days : Midnight(d) <= t /\ t < Midnight(d + 1) /\ d - 13 .. d + 7 \subseteq Days
    BY CalendarAssumption DEF Times
  <2>2. t \in Int /\ d \in Int
    BY <1>1, QuotaTimes
  <2>3. DayOf(t) = d
    BY <1>3, <2>1, <2>2
  <2>4. \A e \in Int : d - 13 <= e /\ e <= d + 7 => e \in d - 13 .. d + 7
    BY SMT, <2>2
  <2> QED BY <2>1, <2>3, <2>4
<1> QED BY <1>1, <1>3, <1>4

(* The reset of a day that has its reading is on that day, and adding days *)
(* to it gives that of another day.                                        *)
LEMMA ReadingsOK ==
  ASSUME NEW s, NEW d \in Days, Reads(s, d)
  PROVE  LET x == ClockTime(d, s.clock)
         IN  /\ Midnight(d) <= x /\ x < Midnight(d + 1)
             /\ \A n : AddDate(x, n) = ClockTime(d + n, s.clock)
<1> DEFINE x == ClockTime(d, s.clock)
<1>1. x \in Midnight(d) .. Midnight(d + 1) - 1 /\ Clock(x) = s.clock
  BY DEF Reads
<1> HIDE DEF x
<1>2. x \in Int /\ Midnight(d) <= x /\ x < Midnight(d + 1)
  BY SMT, <1>1, DayOfOK
<1>3. DayOf(x) = d
  BY <1>2, DayOfOK
<1>4. \A n : AddDate(x, n) = ClockTime(d + n, s.clock)
  BY <1>1, <1>3 DEF AddDate
<1> QED BY <1>2, <1>4 DEF x

(* The instants a schedule names.                                          *)
Strike(s, x) ==
  IF s.period \in {"daily", "weekly"}
  THEN \E d \in Days : (s.period = "weekly" => (d - s.weekday) % 7 = 0) /\ x = ClockTime(d, s.clock)
  ELSE \E k \in Int : x = s.anchor + k * s.duration

(* The period of t is from one of them to the next.                        *)
Period(s, t) ==
  LET b == bounds(s, t)
  IN  /\ b[1] \in Int /\ b[2] \in Int /\ b[1] <= t /\ t < b[2]
      /\ Strike(s, b[1]) /\ Strike(s, b[2])
      /\ \A x : Strike(s, x) => x \in Int /\ (x <= b[1] \/ b[2] <= x)

(* A day's period, and a week's.                                           *)
LEMMA CivilPeriod ==
  ASSUME NEW s \in Schedules, s.period \in {"daily", "weekly"}, NEW t \in Times, Regular(s, t)
  PROVE  Period(s, t)
<1> DEFINE days == IF s.period = "weekly" THEN 7 ELSE 1
           today == DayOf(t)
           date == IF s.period = "weekly" THEN today - SinceWeekday(s, t) ELSE today
           at(d) == ClockTime(d, s.clock)
           day == IF t < at(date) THEN date - days ELSE date
           named(d) == s.period = "weekly" => (d - s.weekday) % 7 = 0
<1>1. s.period = "weekly" => s.weekday \in 0 .. 6
  BY CalendarAssumption DEF Schedules
<1>0. /\ Reads(s, date - days) /\ Reads(s, date) /\ Reads(s, date + days)
      /\ s.period = "weekly" => DayOf(AddDate(t, -SinceWeekday(s, t))) = date
  BY DEF Regular
<1>2. /\ t \in Int /\ today \in Days /\ today \in Int
      /\ Midnight(today) <= t /\ t < Midnight(today + 1)
      /\ \A e \in Int : today - 13 <= e /\ e <= today + 7 => e \in Days
  BY DayOfOK, QuotaTimes
<1> HIDE DEF today
<1>3. \A d, w \in Int : LET e == d - ((d - w) % 7)
                        IN  e \in Int /\ d - 6 <= e /\ e <= d /\ (e - w) % 7 = 0
  <2> TAKE d, w \in Int
  <2> DEFINE r == (d - w) % 7
             q == (d - w) \div 7
  <2>1. r \in 0 .. 6 /\ q \in Int /\ d - w = 7 * q + r
    BY SMT
  <2> HIDE DEF r, q
  <2>2. (7 * q) % 7 = 0 /\ (d - r) - w = 7 * q
    BY SMT, <2>1
  <2>3. (d - r) \in Int /\ d - 6 <= d - r /\ d - r <= d
    BY SMT, <2>1
  <2>4. ((d - r) - w) % 7 = 0
    BY <2>2
  <2> QED BY <2>3, <2>4 DEF r
<1>4. /\ date \in Int /\ today - 6 <= date /\ date <= today /\ named(date) /\ today < date + days
      /\ days \in {1, 7} /\ (s.period = "weekly" => s.weekday \in Int /\ days = 7) /\ (s.period # "weekly" => days = 1)
  <2>1. CASE s.period = "weekly"
    <3>1. s.weekday \in Int
      BY SMT, <1>1, <2>1
    <3>2. date = today - ((today - s.weekday) % 7) /\ days = 7
      BY <2>1 DEF SinceWeekday, today
    <3> QED BY SMT, <1>2, <1>3, <3>1, <3>2, <2>1
  <2>2. CASE s.period # "weekly"
    BY SMT, <1>2, <2>2
  <2> QED BY <2>1, <2>2
<1> HIDE DEF date, days
<1>5. /\ date \in Days /\ date - days \in Days /\ date + days \in Days
      /\ date - days \in Int /\ date + days \in Int
      /\ (date - days) + days = date
  BY SMT, <1>2, <1>4
<1>6. \A d, w \in Int : (d - w) % 7 = 0 => ((d - 7) - w) % 7 = 0 /\ ((d + 7) - w) % 7 = 0
  BY SMT
<1>7. named(date - days) /\ named(date + days)
  BY <1>4, <1>6
<1>8. /\ day \in Int /\ day \in Days /\ day + days \in Int /\ day + days \in Days
      /\ named(day) /\ named(day + days)
  BY <1>4, <1>5, <1>7
<1>9. /\ \A d \in Days : at(d) \in Int
      /\ \A d, e \in Days : d < e => at(d) <= at(e)
  BY CalendarAssumption DEF Schedules
<1>11. \A d \in {date - days, date, date + days} :
         /\ \A n : AddDate(at(d), n) = at(d + n)
         /\ Midnight(d) <= at(d) /\ at(d) < Midnight(d + 1)
  BY <1>0, <1>5, ReadingsOK
<1>10. bounds(s, t) = <<at(day), at(day + days)>>
  <2>1. date - days = date + (-days)
    BY SMT, <1>4
  <2>2. bounds(s, t) = civilBounds(s, t, days)
    BY DEF bounds, days
  <2>3. AddDate(at(date), -days) = at(date - days)
    BY <1>11, <2>1
  <2>4. civilBounds(s, t, days)
          = LET start == IF t < at(date) THEN AddDate(at(date), -days) ELSE at(date)
            IN  <<start, AddDate(start, days)>>
    BY <1>0 DEF civilBounds, date, today
  <2>5. AddDate(at(day), days) = at(day + days)
    BY <1>11
  <2> QED BY <2>2, <2>3, <2>4, <2>5
<1>13. \A d, e \in Days : d < e => Midnight(d + 1) <= Midnight(e)
  BY CalendarAssumption
<1>14. \A d \in Days : d \in Int /\ Midnight(d) \in Int /\ Midnight(d + 1) \in Int
  BY DayOfOK
<1> HIDE DEF at
<1>15. at(day) <= t /\ t < at(day + days)
  <2>1. CASE t < at(date)
    <3>1. day = date - days /\ day + days = date
      BY <1>5, <2>1
    <3>2. date - days < today
      BY SMT, <1>2, <1>4
    <3>3. Midnight(date - days + 1) <= Midnight(today)
      BY <1>2, <1>5, <1>13, <3>2
    <3>4. at(date - days) < Midnight(date - days + 1)
      BY <1>11
    <3>5. at(date - days) <= t
      BY SMT, <1>2, <1>5, <1>9, <1>14, <3>3, <3>4
    <3> QED BY <2>1, <3>1, <3>5
  <2>2. CASE ~(t < at(date))
    <3>1. day = date
      BY <2>2
    <3>2. Midnight(today + 1) <= Midnight(date + days)
      BY <1>2, <1>4, <1>5, <1>13
    <3>3. Midnight(date + days) <= at(date + days)
      BY <1>11
    <3>4. t < at(date + days) /\ at(date) <= t
      BY SMT, <1>2, <1>5, <1>9, <1>14, <2>2, <3>2, <3>3
    <3> QED BY <3>1, <3>4
  <2> QED BY <2>1, <2>2
<1> HIDE DEF day
<1>16. ASSUME NEW d \in Days, named(d) PROVE d <= day \/ day + days <= d
  <2>1. \A x, y, w \in Int : (x - w) % 7 = 0 /\ (y - w) % 7 = 0 => x <= y \/ y + 7 <= x
    BY SMT
  <2>2. CASE s.period = "weekly"
    BY <1>4, <1>8, <1>14, <1>16, <2>1, <2>2
  <2>3. CASE s.period # "weekly"
    BY SMT, <1>4, <1>8, <1>14, <2>3
  <2> QED BY <2>2, <2>3
<1>17. \A d \in Days : named(d) => at(d) <= at(day) \/ at(day + days) <= at(d)
  <2> TAKE d \in Days
  <2> HAVE named(d)
  <2>1. \A x, y \in Days : x <= y => at(x) <= at(y)
    BY SMT, <1>9, <1>14
  <2> QED BY <1>8, <1>16, <2>1
<1>18. \A x : Strike(s, x) <=> \E d \in Days : named(d) /\ x = at(d)
  BY DEF Strike, at
<1>19. bounds(s, t)[1] = at(day) /\ bounds(s, t)[2] = at(day + days)
  BY SMT, <1>10
<1>20. \A d \in Days : at(d) \in Int
  BY <1>9
<1> HIDE DEF named
<1> QED BY <1>8, <1>15, <1>17, <1>18, <1>19, <1>20 DEF Period

(* The period of any schedule.                                             *)
LEMMA PeriodOK ==
  ASSUME NEW s \in Schedules, NEW t \in Times, Regular(s, t)
  PROVE  Period(s, t)
<1>1. CASE s.period \in {"daily", "weekly"}
  BY <1>1, CivilPeriod
<1>2. CASE s.period \notin {"daily", "weekly"}
  <2> DEFINE a == s.anchor
             n == s.duration
             k == floorDuration(t - a, n)
  <2>1. a \in Int /\ n \in Nat \ {0}
    <3>1. PICK c \in QuotaConfigs : s \in SchedulesOf(c)
      BY DEF Schedules
    <3>2. s.period \notin {"", "daily", "weekly"}
      BY <1>2 DEF Schedules
    <3> QED BY <3>1, <3>2, QuotaAssumption
  <2>2. t \in Int /\ t - a \in Int
    BY SMT, <2>1, QuotaTimes
  <2>3. k \in Int /\ k * n <= t - a /\ t - a < k * n + n
    BY <2>1, <2>2, FloorIsFloor
  <2>4. bounds(s, t) = <<a + k * n, a + k * n + n>>
    BY <1>2 DEF bounds
  <2>5. \A x : Strike(s, x) <=> \E j \in Int : x = a + j * n
    BY <1>2 DEF Strike
  <2> HIDE DEF a, n, k
  <2>6. /\ a + k * n \in Int /\ a + k * n + n \in Int /\ a + k * n <= t /\ t < a + k * n + n
        /\ k + 1 \in Int /\ a + k * n + n = a + (k + 1) * n
    BY SMT, <2>1, <2>2, <2>3
  <2>7. ASSUME NEW j \in Int
        PROVE  a + j * n \in Int /\ (a + j * n <= a + k * n \/ a + k * n + n <= a + j * n)
    <3>0. j * n \in Int /\ k * n \in Int /\ (k + 1) * n = k * n + n
      BY SMT, <2>1, <2>3
    <3>1. CASE j <= k
      <4>1. j * n <= k * n
        BY SMT, <2>1, <2>3, <3>1
      <4> QED BY SMT, <2>1, <3>0, <4>1
    <3>2. CASE k + 1 <= j
      <4>1. (k + 1) * n <= j * n
        BY SMT, <2>1, <2>3, <3>2
      <4> QED BY SMT, <2>1, <3>0, <4>1
    <3> QED BY SMT, <2>3, <3>1, <3>2
  <2>8. bounds(s, t)[1] = a + k * n /\ bounds(s, t)[2] = a + k * n + n
    BY SMT, <2>4
  <2> QED BY SMT, <2>3, <2>5, <2>6, <2>7, <2>8 DEF Period
<1> QED BY <1>1, <1>2

(* A later time is in the same period or, from its end on, in a later one. *)
LEMMA BoundsMonotone ==
  ASSUME NEW s \in Schedules, NEW t \in Times, NEW u \in Times, t <= u, Regular(s, t), Regular(s, u)
  PROVE  /\ bounds(s, t)[1] \in Int /\ bounds(s, t)[2] \in Int /\ t < bounds(s, t)[2]
         /\ bounds(s, t)[1] <= bounds(s, u)[1]
         /\ u < bounds(s, t)[2] => bounds(s, u)[1] = bounds(s, t)[1]
         /\ bounds(s, t)[2] <= u => bounds(s, t)[2] <= bounds(s, u)[1]
<1> DEFINE b == bounds(s, t)[1]
           e == bounds(s, t)[2]
           c == bounds(s, u)[1]
           f == bounds(s, u)[2]
<1>1. /\ b \in Int /\ e \in Int /\ b <= t /\ t < e /\ c \in Int /\ f \in Int /\ c <= u /\ u < f
      /\ (b <= c \/ f <= b) /\ (e <= c \/ f <= e) /\ (c <= b \/ e <= c)
  BY PeriodOK DEF Period
<1> HIDE DEF b, e, c, f
<1>2. /\ b <= c /\ (u < e => c = b) /\ (e <= u => e <= c)
  BY SMT, <1>1, QuotaTimes
<1> QED BY <1>1, <1>2 DEF b, e, c, f

(* What is asked of the calendar for the windows to be counted right.      *)
LEMMA StartsMonotone ==
  ASSUME StartsInOrder, NEW s \in Schedules, NEW t \in Times, NEW u \in Times
  PROVE  bounds(s, t)[1] \in Int /\ (t <= u => bounds(s, t)[1] <= bounds(s, u)[1])
BY DEF StartsInOrder, Schedules, Times

(* A calendar in which every day has the readings of the resets keeps the  *)
(* starts of all periods in order (tracker.go civilBounds).                *)
THEOREM RegularKeepsOrder ==
  ASSUME \A s \in Schedules : \A t \in Times : Regular(s, t)
  PROVE  StartsInOrder
<1>1. ASSUME NEW s \in Schedules, NEW t \in Times, NEW u \in Times
      PROVE  bounds(s, t)[1] \in Int /\ (t <= u => bounds(s, t)[1] <= bounds(s, u)[1])
  <2>1. t \in Int /\ t <= t
    BY SMT, QuotaTimes
  <2> QED BY <2>1, BoundsMonotone
<1> QED BY <1>1 DEF StartsInOrder, Schedules, Times

-----------------------------------------------------------------------------
(* The windows of a configuration, as the ideal sees them. *)
Windows == UNION {WindowsOf(c) : c \in QuotaConfigs}

(* A window has a schedule where it needs one, and a length.               *)
LEMMA WindowsOK ==
  ASSUME NEW l \in Windows
  PROVE  /\ l.window.duration \in Nat /\ l.window.reset \in {"fixed", "rolling"}
         /\ l.window.reset = "fixed" => l.window.schedule \in Schedules
         /\ l.all.period # "" => l.all \in Schedules
<1>0. PICK c \in QuotaConfigs : l \in WindowsOf(c)
  BY DEF Windows
<1>1. PICK w \in c.windows : l = [window |-> w, all |-> c.resetAll]
  BY <1>0 DEF WindowsOf
<1>2. l.window = w /\ l.all = c.resetAll
  BY <1>1
<1>3. c.resetAll \in SchedulesOf(c) /\ (w.reset = "fixed" => w.schedule \in SchedulesOf(c))
  BY DEF SchedulesOf
<1>4. w.duration \in Nat /\ w.reset \in {"fixed", "rolling"} /\ (w.reset = "fixed" => w.schedule.period # "")
  BY QuotaAssumption
<1> QED BY <1>2, <1>3, <1>4 DEF Schedules

(* What a window still counts it counted before; what it counts it counts  *)
(* with everything later; and windows with one identity count the same.    *)
LEMMA CountsOK ==
  ASSUME StartsInOrder, NEW l \in Windows, NEW t \in Times
  PROVE  /\ \A u \in Times, at \in Int : t <= u /\ Counts(l, at, u) => Counts(l, at, t)
         /\ \A at, later \in Int : at <= later /\ Counts(l, at, t) => Counts(l, later, t)
         /\ \A x \in Windows, at \in Int : Key(x) = Key(l) => Counts(x, at, t) = Counts(l, at, t)
<1> DEFINE start(s, u) == bounds(s, u)[1]
<1>0. \A u \in Times : u \in Int
  BY QuotaTimes
<1>1. \A s \in Schedules : \A u \in Times : t <= u => start(s, t) \in Int /\ start(s, u) \in Int /\ start(s, t) <= start(s, u)
  <2> TAKE s \in Schedules
  <2> TAKE u \in Times
  <2> QED BY StartsMonotone
<1>2. t <= t
  BY SMT, <1>0
<1>3. /\ l.window.duration \in Int
      /\ l.window.reset = "fixed" => l.window.schedule \in Schedules
      /\ l.all.period # "" => l.all \in Schedules
  <2>1. \A n \in Nat : n \in Int
    BY SMT
  <2> QED BY <2>1, WindowsOK
<1>4. \A u, at : Counts(l, at, u) <=> /\ l.window.reset = "fixed" => start(l.window.schedule, u) <= at
                                      /\ l.window.reset # "fixed" => u - l.window.duration < at
                                      /\ l.all.period # "" => start(l.all, u) <= at
  BY DEF Counts
<1> HIDE DEF start
<1> DEFINE length == l.window.duration
<1>5. length \in Int
  BY <1>3
<1> HIDE DEF length
<1>6. \A a, b, c \in Int : (a <= b /\ b <= c => a <= c) /\ (a <= b /\ b - length < c => a - length < c)
  BY SMT, <1>5
<1>7. \A u \in Times : u - length \in Int
  BY SMT, <1>0, <1>5
<1>8. ASSUME NEW u \in Times, NEW at \in Int, t <= u, Counts(l, at, u) PROVE Counts(l, at, t)
  <2>1. l.window.reset = "fixed" => start(l.window.schedule, t) <= at
    <3> SUFFICES ASSUME l.window.reset = "fixed" PROVE start(l.window.schedule, t) <= at
      OBVIOUS
    <3>1. start(l.window.schedule, u) <= at
      BY <1>4, <1>8
    <3>2. /\ start(l.window.schedule, t) \in Int /\ start(l.window.schedule, u) \in Int
          /\ start(l.window.schedule, t) <= start(l.window.schedule, u)
      BY <1>1, <1>3, <1>8
    <3> QED BY <1>6, <3>1, <3>2
  <2>2. l.all.period # "" => start(l.all, t) <= at
    <3> SUFFICES ASSUME l.all.period # "" PROVE start(l.all, t) <= at
      OBVIOUS
    <3>1. start(l.all, u) <= at
      BY <1>4, <1>8
    <3>2. start(l.all, t) \in Int /\ start(l.all, u) \in Int /\ start(l.all, t) <= start(l.all, u)
      BY <1>1, <1>3, <1>8
    <3> QED BY <1>6, <3>1, <3>2
  <2>3. l.window.reset # "fixed" => t - l.window.duration < at
    <3> SUFFICES ASSUME l.window.reset # "fixed" PROVE t - l.window.duration < at
      OBVIOUS
    <3>1. u - l.window.duration < at
      BY <1>4, <1>8
    <3> QED BY <1>0, <1>6, <1>8, <3>1 DEF length
  <2> QED BY <1>4, <2>1, <2>2, <2>3
<1>9. ASSUME NEW at \in Int, NEW later \in Int, at <= later, Counts(l, at, t) PROVE Counts(l, later, t)
  <2>1. \A n \in Int : (n <= at => n <= later) /\ (n < at => n < later)
    BY SMT, <1>9
  <2>2. t - l.window.duration \in Int
    BY <1>7 DEF length
  <2> QED BY <1>1, <1>2, <1>3, <1>4, <1>9, <2>1, <2>2
<1>10. ASSUME NEW x \in Windows, NEW at \in Int, Key(x) = Key(l) PROVE Counts(x, at, t) = Counts(l, at, t)
  <2>1. /\ x.window.reset = l.window.reset /\ scheduleKey(x.window) = scheduleKey(l.window)
        /\ x.all = l.all
    BY SMT, <1>10 DEF Key
  <2>2. l.window.reset \in {"fixed", "rolling"}
    BY WindowsOK
  <2>3. CASE l.window.reset = "fixed"
    <3>1. x.window.schedule = l.window.schedule
      BY <2>1, <2>3 DEF scheduleKey
    <3> QED BY <2>1, <2>3, <3>1 DEF Counts
  <2>4. CASE l.window.reset = "rolling"
    <3>1. x.window.duration = l.window.duration
      BY <2>1, <2>4 DEF scheduleKey
    <3> QED BY <2>1, <2>4, <3>1 DEF Counts
  <2> QED BY <2>2, <2>3, <2>4
<1> QED BY <1>8, <1>9, <1>10

-----------------------------------------------------------------------------
(* A set of numbers that is not empty has a least element. *)
LEMMA LeastNumber ==
  ASSUME NEW S \in SUBSET Nat, S # {}
  PROVE  \E x \in S : \A y \in S : x <= y
<1>1. PICK R : R = {ss \in Nat \X Nat : ss[1] < ss[2]}
  OBVIOUS
<1>2. PICK x \in S : \A y \in S : ~(<<y, x>> \in R)
  BY <1>1, NatLessThanWellFounded, WFMin DEF OpToRel
<1>3. \A y \in S : <<y, x>> \in Nat \X Nat /\ <<y, x>>[1] = y /\ <<y, x>>[2] = x
  OBVIOUS
<1>4. \A y \in S : ~(y < x)
  BY <1>1, <1>2, <1>3
<1> QED BY SMT, <1>4

(* A bounded one has a greatest, which Max chooses. *)
LEMMA MaxIsGreatest ==
  ASSUME NEW n \in Nat, NEW S \in SUBSET (0 .. n), S # {}
  PROVE  Max(S) \in S /\ \A y \in S : y <= Max(S)
<1> DEFINE below == {n - x : x \in S}
<1>0. \A x \in S : n - x \in Nat
  BY SMT
<1>1. below \in SUBSET Nat /\ below # {}
  BY <1>0
<1>2. PICK b \in below : \A y \in below : b <= y
  BY <1>1, LeastNumber
<1>3. PICK x \in S : b = n - x
  BY <1>2
<1>4. \A y \in S : n - x <= n - y
  BY <1>2, <1>3
<1>5. \A y \in S : x >= y
  BY SMT, <1>4
<1>6. Max(S) \in S /\ \A y \in S : Max(S) >= y
  BY <1>5 DEF Max
<1> QED BY SMT, <1>6

-----------------------------------------------------------------------------
(* Sequences with the same entries are the same. *)
LEMMA SameEntries ==
  ASSUME NEW S, NEW a \in Seq(S), NEW b \in Seq(S), Len(a) = Len(b),
         \A i \in 1 .. Len(a) : a[i] = b[i]
  PROVE  a = b
BY SMT

(* The entries of a sequence after the first m. *)
After(s, m) == SubSeq(s, m + 1, Len(s))

(* What is left has the entries of the rest. *)
LEMMA AfterOK ==
  ASSUME NEW S, NEW s \in Seq(S), NEW m \in 0 .. Len(s)
  PROVE  /\ After(s, m) \in Seq(S) /\ Len(After(s, m)) = Len(s) - m
         /\ \A i \in 1 .. Len(s) - m : After(s, m)[i] = s[m + i]
BY SMT DEF After

(* Leaving out twice is leaving out the sum. *)
LEMMA AfterAfter ==
  ASSUME NEW S, NEW s \in Seq(S), NEW m \in 0 .. Len(s), NEW k \in 0 .. Len(s) - m
  PROVE  m + k \in 0 .. Len(s) /\ After(After(s, m), k) = After(s, m + k)
<1>1. m + k \in 0 .. Len(s) /\ k \in 0 .. Len(After(s, m))
  BY SMT, AfterOK
<1>2. After(s, m) \in Seq(S) /\ Len(After(s, m)) = Len(s) - m
  BY AfterOK
<1>3. /\ After(s, m + k) \in Seq(S) /\ Len(After(s, m + k)) = Len(s) - (m + k)
      /\ \A i \in 1 .. Len(s) - (m + k) : After(s, m + k)[i] = s[m + k + i]
  BY <1>1, AfterOK
<1>4. /\ After(After(s, m), k) \in Seq(S) /\ Len(After(After(s, m), k)) = Len(s) - m - k
      /\ \A i \in 1 .. Len(s) - m - k : After(After(s, m), k)[i] = After(s, m)[k + i]
  BY <1>1, <1>2, AfterOK
<1>5. \A i \in 1 .. Len(s) - m - k : k + i \in 1 .. Len(s) - m /\ m + (k + i) = m + k + i
  BY SMT
<1>6. \A i \in 1 .. Len(s) - m : After(s, m)[i] = s[m + i]
  BY AfterOK
<1>7. \A i \in 1 .. Len(s) - m - k : After(After(s, m), k)[i] = s[m + k + i]
  BY <1>4, <1>5, <1>6
<1>8. Len(s) - m - k = Len(s) - (m + k)
  BY SMT
<1> QED BY <1>1, <1>3, <1>4, <1>7, <1>8, SameEntries

(* An entry added to the whole is added to the rest. *)
LEMMA AfterAppend ==
  ASSUME NEW S, NEW s \in Seq(S), NEW e \in S, NEW m \in 0 .. Len(s)
  PROVE  m \in 0 .. Len(Append(s, e)) /\ After(Append(s, e), m) = Append(After(s, m), e)
<1> DEFINE new == Append(s, e)
           old == After(s, m)
<1>1. /\ new \in Seq(S) /\ Len(new) = Len(s) + 1 /\ m \in 0 .. Len(new)
      /\ \A i \in 1 .. Len(new) : new[i] = IF i = Len(new) THEN e ELSE s[i]
  BY SMT
<1>2. /\ old \in Seq(S) /\ Len(old) = Len(s) - m
      /\ \A i \in 1 .. Len(s) - m : old[i] = s[m + i]
  BY AfterOK
<1>3. /\ After(new, m) \in Seq(S) /\ Len(After(new, m)) = Len(new) - m
      /\ \A i \in 1 .. Len(new) - m : After(new, m)[i] = new[m + i]
  BY <1>1, AfterOK
<1> HIDE DEF new, old
<1>4. /\ Append(old, e) \in Seq(S) /\ Len(Append(old, e)) = Len(new) - m
      /\ \A i \in 1 .. Len(new) - m : Append(old, e)[i] = IF i = Len(new) - m THEN e ELSE old[i]
  BY SMT, <1>1, <1>2
<1>5. \A i \in 1 .. Len(new) - m : /\ m + i \in 1 .. Len(new) /\ (m + i = Len(new) <=> i = Len(new) - m)
                                   /\ i # Len(new) - m => i \in 1 .. Len(s) - m
  BY SMT, <1>1
<1>6. \A i \in 1 .. Len(new) - m : After(new, m)[i] = Append(old, e)[i]
  BY <1>1, <1>2, <1>3, <1>4, <1>5
<1>7. After(new, m) = Append(old, e)
  BY <1>3, <1>4, <1>6, SameEntries
<1> QED BY <1>1, <1>7 DEF new, old

(* Leaving out none, or all. *)
LEMMA AfterEnds ==
  ASSUME NEW S, NEW s \in Seq(S)
  PROVE  After(s, 0) = s /\ After(s, Len(s)) = << >>
BY SMT DEF After

-----------------------------------------------------------------------------
(* Events in the order of their times. *)
InOrder(s) == s \in Seq(UsageEvents) /\ \A i, j \in 1 .. Len(s) : i <= j => s[i].at <= s[j].at

(* The times of events are integers, and what is left of events in order   *)
(* is in order.                                                            *)
LEMMA InOrderOK ==
  ASSUME NEW s, InOrder(s), NEW m \in 0 .. Len(s)
  PROVE  /\ \A i \in 1 .. Len(s) : s[i].at \in Int
         /\ InOrder(After(s, m))
<1>1. s \in Seq(UsageEvents) /\ \A i, j \in 1 .. Len(s) : i <= j => s[i].at <= s[j].at
  BY DEF InOrder
<1>2. /\ After(s, m) \in Seq(UsageEvents) /\ Len(After(s, m)) = Len(s) - m
      /\ \A i \in 1 .. Len(s) - m : After(s, m)[i] = s[m + i]
  BY <1>1, AfterOK
<1>3. \A i \in 1 .. Len(s) - m : m + i \in 1 .. Len(s)
  BY SMT, <1>1
<1>4. \A i, j \in 1 .. Len(s) - m : i <= j => m + i <= m + j
  BY SMT, <1>1
<1>5. \A i \in 1 .. Len(s) : s[i] \in UsageEvents
  BY SMT, <1>1
<1>6. \A e \in UsageEvents : e.at \in Int
  BY DEF UsageEvents
<1> QED BY <1>1, <1>2, <1>3, <1>4, <1>5, <1>6 DEF InOrder

(* The times of events in order are integers.                              *)
LEMMA OrderedTimes ==
  ASSUME NEW s, InOrder(s)
  PROVE  s \in Seq(UsageEvents) /\ Len(s) \in Nat /\ \A i \in 1 .. Len(s) : s[i].at \in Int
<1>1. s \in Seq(UsageEvents)
  BY DEF InOrder
<1>2. Len(s) \in Nat /\ 0 \in 0 .. Len(s)
  BY SMT, <1>1
<1> QED BY <1>1, <1>2, InOrderOK

(* discardBefore leaves, of events in order, those from the cutoff on.     *)
LEMMA DiscardsBefore ==
  ASSUME NEW s, InOrder(s), NEW cutoff \in Int
  PROVE  \E k \in 0 .. Len(s) :
           /\ discardBefore(s, cutoff) = After(s, k)
           /\ \A i \in 1 .. Len(s) : i <= k <=> s[i].at < cutoff
<1> DEFINE old == {i \in DOMAIN s : \A j \in 1 .. i : s[j].at < cutoff}
           k == Max({0} \cup old)
<1>1. /\ DOMAIN s = 1 .. Len(s) /\ Len(s) \in Nat
      /\ \A i, j \in 1 .. Len(s) : i <= j => s[i].at <= s[j].at
  BY SMT DEF InOrder
<1>2. \A i \in 1 .. Len(s) : s[i].at \in Int
  BY OrderedTimes
<1>3. {0} \cup old \in SUBSET (0 .. Len(s))
  BY SMT, <1>1
<1>4. k \in {0} \cup old /\ \A y \in {0} \cup old : y <= k
  BY <1>1, <1>3, MaxIsGreatest
<1>5. discardBefore(s, cutoff) = After(s, k)
  BY DEF discardBefore, DropPrefix, After
<1> HIDE DEF k
<1>6. ASSUME NEW i \in 1 .. Len(s), i <= k PROVE s[i].at < cutoff
  <2>1. k \in old /\ i \in 1 .. k
    BY SMT, <1>1, <1>3, <1>4, <1>6
  <2> QED BY <2>1
<1>7. ASSUME NEW i \in 1 .. Len(s), s[i].at < cutoff PROVE i <= k
  <2>1. \A j \in 1 .. i : j \in 1 .. Len(s) /\ j <= i
    BY SMT, <1>1
  <2>2. \A j \in 1 .. i : s[j].at \in Int /\ s[i].at \in Int /\ s[j].at <= s[i].at
    BY <1>1, <1>2, <2>1
  <2>3. \A a, b \in Int : a <= b /\ b < cutoff => a < cutoff
    BY SMT
  <2>4. i \in old
    BY <1>1, <1>7, <2>2, <2>3
  <2> QED BY <1>4, <2>4
<1> QED BY <1>3, <1>4, <1>5, <1>6, <1>7

(* ... and discardThrough those after the cutoff.                          *)
LEMMA DiscardsThrough ==
  ASSUME NEW s, InOrder(s), NEW cutoff \in Int
  PROVE  discardThrough(s, cutoff) = discardBefore(s, cutoff + 1)
<1>1. DOMAIN s = 1 .. Len(s) /\ Len(s) \in Nat
  BY SMT DEF InOrder
<1>2. \A i \in 1 .. Len(s) : s[i].at \in Int
  BY OrderedTimes
<1>3. \A a \in Int : a <= cutoff <=> a < cutoff + 1
  BY SMT
<1>4. \A i \in DOMAIN s : \A j \in 1 .. i : j \in 1 .. Len(s)
  BY SMT, <1>1
<1>5. \A i \in DOMAIN s : \A j \in 1 .. i : s[j].at <= cutoff <=> s[j].at < cutoff + 1
  BY <1>2, <1>3, <1>4
<1>6. {i \in DOMAIN s : \A j \in 1 .. i : s[j].at <= cutoff} = {i \in DOMAIN s : \A j \in 1 .. i : s[j].at < cutoff + 1}
  BY <1>5
<1> QED BY <1>6 DEF discardThrough, discardBefore, DropPrefix

(* A rollover leaves, of events in order, those the window counts.         *)
LEMMA RolloverCounts ==
  ASSUME StartsInOrder, NEW l \in Windows, NEW s, InOrder(s), NEW t \in Times, NEW kept,
         kept = IF Given(l.all) THEN discardBefore(s, bounds(l.all, t)[1]) ELSE s
  PROVE  \E k \in 0 .. Len(s) :
           /\ rolloverWindow(l.window, kept, t) = After(s, k)
           /\ \A i \in 1 .. Len(s) : i <= k <=> ~Counts(l, s[i].at, t)
<1> DEFINE all == bounds(l.all, t)[1]
           cut == IF l.window.reset = "fixed" THEN bounds(l.window.schedule, t)[1] ELSE (t - l.window.duration) + 1
<1>0. s \in Seq(UsageEvents) /\ Len(s) \in Nat
  BY OrderedTimes
<1>1. t \in Int /\ t <= t
  BY SMT, QuotaTimes
<1>2. l.window.duration \in Int /\ t - l.window.duration \in Int /\ (t - l.window.duration) + 1 \in Int
  <2>1. l.window.duration \in Nat
    BY WindowsOK
  <2>2. \A d \in Nat : d \in Int /\ t - d \in Int /\ (t - d) + 1 \in Int
    BY SMT, <1>1
  <2> QED BY <2>1, <2>2
<1>3. cut \in Int /\ (Given(l.all) => all \in Int)
  BY <1>2, WindowsOK, StartsMonotone DEF Given
<1>4. \A i \in 1 .. Len(s) : s[i].at \in Int
  BY OrderedTimes
<1>5. \A at \in Int : ~Counts(l, at, t) <=> at < cut \/ (Given(l.all) /\ at < all)
  <2> TAKE at \in Int
  <2>1. l.window.reset # "fixed" => (t - l.window.duration < at <=> ~(at < cut))
    BY SMT, <1>2
  <2>2. l.window.reset = "fixed" => (bounds(l.window.schedule, t)[1] <= at <=> ~(at < cut))
    BY SMT, <1>3
  <2>3. Given(l.all) => (all <= at <=> ~(at < all))
    BY SMT, <1>3
  <2> QED BY <2>1, <2>2, <2>3 DEF Counts, Given
<1>6. PICK a \in 0 .. Len(s) : /\ kept = After(s, a)
                               /\ \A i \in 1 .. Len(s) : i <= a <=> (Given(l.all) /\ s[i].at < all)
  <2>1. CASE ~Given(l.all)
    <3>1. 0 \in 0 .. Len(s) /\ \A i \in 1 .. Len(s) : ~(i <= 0)
      BY SMT, <1>0
    <3>2. kept = After(s, 0)
      BY <1>0, <2>1, AfterEnds
    <3> QED BY <2>1, <3>1, <3>2
  <2>2. CASE Given(l.all)
    <3>1. kept = discardBefore(s, all) /\ all \in Int
      BY <1>3, <2>2
    <3> HIDE DEF all
    <3> QED BY <2>2, <3>1, DiscardsBefore
  <2> QED BY <2>1, <2>2
<1> HIDE DEF all
<1>7. InOrder(kept) /\ Len(kept) = Len(s) - a /\ \A i \in 1 .. Len(s) - a : kept[i] = s[a + i]
  BY <1>0, <1>6, AfterOK, InOrderOK
<1>8. rolloverWindow(l.window, kept, t) = discardBefore(kept, cut)
  BY <1>2, <1>7, DiscardsThrough DEF rolloverWindow
<1> HIDE DEF cut
<1>9. PICK b \in 0 .. Len(kept) : /\ discardBefore(kept, cut) = After(kept, b)
                                  /\ \A i \in 1 .. Len(kept) : i <= b <=> kept[i].at < cut
  BY <1>3, <1>7, DiscardsBefore
<1>10. a + b \in 0 .. Len(s) /\ After(kept, b) = After(s, a + b)
  <2>1. b \in 0 .. Len(s) - a
    BY <1>7, <1>9
  <2> QED BY <1>0, <1>6, <2>1, AfterAfter
<1>11. \A i \in 1 .. Len(s) : i <= a + b <=> ~Counts(l, s[i].at, t)
  <2> TAKE i \in 1 .. Len(s)
  <2>1. CASE i <= a
    <3>1. i <= a + b
      BY SMT, <1>0, <1>7, <2>1
    <3> QED BY <1>4, <1>5, <1>6, <2>1, <3>1
  <2>2. CASE ~(i <= a)
    <3> DEFINE j == i - a
    <3>1. j \in 1 .. Len(s) - a /\ a + j = i /\ (j <= b <=> i <= a + b)
      BY SMT, <1>0, <1>7, <2>2
    <3>2. kept[j] = s[i]
      BY <1>7, <3>1
    <3>3. i <= a + b <=> s[i].at < cut
      BY <1>7, <1>9, <3>1, <3>2
    <3> QED BY <1>4, <1>5, <1>6, <2>2, <3>3
  <2> QED BY <2>1, <2>2
<1> QED BY <1>8, <1>9, <1>10, <1>11

-----------------------------------------------------------------------------
(* The names of a configuration's windows tell them apart, and so do their *)
(* identities.                                                             *)
LEMMA NamesOK ==
  ASSUME NEW c \in QuotaConfigs
  PROVE  /\ \A l \in WindowsOf(c) : /\ l \in Windows /\ l.window \in c.windows /\ l.all = c.resetAll
                                    /\ l.window.name \in NamesOf(c) /\ Named(c, l.window.name) = l.window
                                    /\ Key(l) \in KeysOf(c)
         /\ \A l, x \in WindowsOf(c) : l.window.name = x.window.name => l = x
         /\ \A n \in NamesOf(c) : \E l \in WindowsOf(c) : l.window.name = n
         /\ \A k \in KeysOf(c) : \E l \in WindowsOf(c) : Key(l) = k
<1>1. \A w, x \in c.windows : w.name = x.name => w = x
  BY QuotaAssumption
<1>2. ASSUME NEW l \in WindowsOf(c)
      PROVE  /\ l = [window |-> l.window, all |-> c.resetAll] /\ l.window \in c.windows
             /\ l \in Windows /\ l.all = c.resetAll
             /\ l.window.name \in NamesOf(c) /\ Key(l) \in KeysOf(c)
  <2>1. PICK w \in c.windows : l = [window |-> w, all |-> c.resetAll]
    BY <1>2 DEF WindowsOf
  <2>2. l.window = w /\ l.all = c.resetAll
    BY <2>1
  <2>3. l \in Windows
    BY <1>2 DEF Windows
  <2>4. Key(l) \in KeysOf(c)
    BY <1>2 DEF KeysOf, Ideal!KeysOf
  <2> QED BY <2>1, <2>2, <2>3, <2>4 DEF NamesOf
<1>3. \A l \in WindowsOf(c) : Named(c, l.window.name) = l.window
  BY <1>1, <1>2 DEF Named
<1>4. \A l, x \in WindowsOf(c) : l.window.name = x.window.name => l = x
  BY <1>1, <1>2
<1>5. \A n \in NamesOf(c) : \E l \in WindowsOf(c) : l.window.name = n
  <2> TAKE n \in NamesOf(c)
  <2>1. PICK w \in c.windows : w.name = n
    BY DEF NamesOf
  <2>2. [window |-> w, all |-> c.resetAll] \in WindowsOf(c)
    BY DEF WindowsOf
  <2> QED BY <2>1, <2>2
<1>6. \A k \in KeysOf(c) : \E l \in WindowsOf(c) : Key(l) = k
  BY DEF KeysOf, Ideal!KeysOf
<1> QED BY <1>2, <1>3, <1>4, <1>5, <1>6

(* Two windows with one identity have one name.                            *)
LEMMA KeyParts ==
  ASSUME NEW l, NEW x
  PROVE  Key(l) = Key(x) <=> /\ l.window.name = x.window.name /\ l.window.type = x.window.type
                             /\ l.window.reset = x.window.reset
                             /\ scheduleKey(l.window) = scheduleKey(x.window) /\ l.all = x.all
BY SMT DEF Key

(* What the ideal selects when it is what follows some first events.       *)
LEMMA SelectedRest ==
  ASSUME NEW S, NEW s \in Seq(S), NEW k \in 0 .. Len(s), NEW keep,
         \A i : i \in keep <=> i \in 1 .. Len(s) /\ ~(i <= k)
  PROVE  Ideal!Selected(s, keep) = After(s, k)
<1>0. k \in Int /\ k + 1 \in Int /\ Len(s) \in Nat /\ Len(s) \in Int
  BY SMT
<1>1. keep = k + 1 .. Len(s)
  <2>1. \A i \in 1 .. Len(s) : ~(i <= k) => i \in k + 1 .. Len(s)
    BY SMT, <1>0
  <2>2. \A i \in k + 1 .. Len(s) : i \in 1 .. Len(s) /\ ~(i <= k)
    BY SMT, <1>0
  <2> QED BY <2>1, <2>2
<1>2. Cardinality(keep) = Len(s) - k
  <2>1. Cardinality(k + 1 .. Len(s)) = IF k + 1 > Len(s) THEN 0 ELSE Len(s) - (k + 1) + 1
    BY <1>0, FS_Interval
  <2> QED BY SMT, <1>0, <1>1, <2>1
<1>3. \A i \in keep : i \in Int /\ {m \in keep : m <= i} = k + 1 .. i
  BY SMT, <1>0, <1>1
<1>4. \A i \in keep : Cardinality({m \in keep : m <= i}) = i - k
  <2> TAKE i \in keep
  <2>1. i \in Int /\ {m \in keep : m <= i} = k + 1 .. i
    BY <1>3
  <2>2. Cardinality(k + 1 .. i) = IF k + 1 > i THEN 0 ELSE i - (k + 1) + 1
    BY <1>0, <2>1, FS_Interval
  <2>3. ~(k + 1 > i) /\ i - (k + 1) + 1 = i - k
    BY SMT, <1>0, <1>1, <2>1
  <2> QED BY <2>1, <2>2, <2>3
<1>5. ASSUME NEW j \in 1 .. Len(s) - k
      PROVE  (CHOOSE i \in keep : Cardinality({m \in keep : m <= i}) = j) = k + j
  <2>1. k + j \in keep /\ (k + j) - k = j
    BY SMT, <1>0, <1>1
  <2>2. \A i \in keep : i - k = j => i = k + j
    BY SMT, <1>0, <1>1
  <2>3. k + j \in keep /\ \A i \in keep : Cardinality({m \in keep : m <= i}) = j <=> i = k + j
    BY <1>4, <2>1, <2>2
  <2> QED BY <2>3
<1>6. Ideal!Selected(s, keep) = [j \in 1 .. Len(s) - k |-> s[k + j]]
  <2> DEFINE at(j) == CHOOSE i \in keep : Cardinality({m \in keep : m <= i}) = j
  <2>1. Ideal!Selected(s, keep) = [j \in 1 .. Cardinality(keep) |-> s[at(j)]]
    BY DEF Ideal!Selected, Ideal!Cardinality, Cardinality
  <2>2. \A j \in 1 .. Len(s) - k : at(j) = k + j
    BY <1>5
  <2> HIDE DEF at
  <2> QED BY <1>2, <2>1, <2>2
<1>7. /\ After(s, k) \in Seq(S) /\ Len(After(s, k)) = Len(s) - k
      /\ \A i \in 1 .. Len(s) - k : After(s, k)[i] = s[k + i]
  BY AfterOK
<1>8. \A j \in 1 .. Len(s) - k : s[k + j] \in S
  BY SMT, <1>0
<1>9. Len(s) - k \in Nat
  BY SMT, <1>0
<1> DEFINE new == [j \in 1 .. Len(s) - k |-> s[k + j]]
<1>10. new \in Seq(S) /\ Len(new) = Len(s) - k
  BY SMT, <1>8, <1>9
<1> QED BY <1>6, <1>7, <1>10, SameEntries

-----------------------------------------------------------------------------
(* The simulation.  A window's events are the end of its log, without      *)
(* usage that it no longer counts.                                         *)
Keeps(l, evs, lg, t) ==
  \E m \in 0 .. Len(lg) : evs = After(lg, m) /\ \A i \in 1 .. Len(lg) : i <= m => ~Counts(l, lg[i].at, t)

Past(lg, t) == InOrder(lg) /\ \A i \in 1 .. Len(lg) : lg[i].at <= t

Faithful(c, evs, lgs, t) ==
  /\ c \in QuotaConfigs
  /\ evs \in [NamesOf(c) -> Seq(UsageEvents)]
  /\ lgs \in [KeysOf(c) -> Seq(UsageEvents)]
  /\ \A k \in KeysOf(c) : Past(lgs[k], t)
  /\ \A l \in WindowsOf(c) : Keeps(l, evs[l.window.name], lgs[Key(l)], t)

(* As time passes, a window counts less, and what it kept is still enough. *)
LEMMA FaithfulLater ==
  ASSUME StartsInOrder, NEW c, NEW evs, NEW lgs, NEW t \in Times, NEW u \in Times, t <= u, Faithful(c, evs, lgs, t)
  PROVE  Faithful(c, evs, lgs, u)
<1>0. t \in Int /\ u \in Int
  BY QuotaTimes
<1>1. \A k \in KeysOf(c) : Past(lgs[k], u)
  <2> TAKE k \in KeysOf(c)
  <2>1. InOrder(lgs[k]) /\ \A i \in 1 .. Len(lgs[k]) : lgs[k][i].at <= t
    BY DEF Faithful, Past
  <2>2. \A i \in 1 .. Len(lgs[k]) : lgs[k][i].at \in Int
    BY <2>1, OrderedTimes
  <2>3. \A a \in Int : a <= t => a <= u
    BY SMT, <1>0
  <2> QED BY <2>1, <2>2, <2>3 DEF Past
<1>2. \A l \in WindowsOf(c) : Keeps(l, evs[l.window.name], lgs[Key(l)], u)
  <2> TAKE l \in WindowsOf(c)
  <2> DEFINE lg == lgs[Key(l)]
  <2>0. l \in Windows /\ Key(l) \in KeysOf(c)
    BY NamesOK DEF Faithful
  <2>1. InOrder(lg)
    BY <2>0 DEF Faithful, Past
  <2>2. \A i \in 1 .. Len(lg) : lg[i].at \in Int
    BY <2>1, OrderedTimes
  <2>3. PICK m \in 0 .. Len(lg) : /\ evs[l.window.name] = After(lg, m)
                                  /\ \A i \in 1 .. Len(lg) : i <= m => ~Counts(l, lg[i].at, t)
    BY DEF Faithful, Keeps
  <2>4. \A at \in Int : Counts(l, at, u) => Counts(l, at, t)
    BY <2>0, CountsOK
  <2> HIDE DEF lg
  <2>5. Keeps(l, evs[l.window.name], lg, u)
    BY <2>2, <2>3, <2>4 DEF Keeps
  <2> QED BY <2>5 DEF lg
<1> QED BY <1>1, <1>2 DEF Faithful

(* Nothing recorded, nothing kept.                                         *)
LEMMA FaithfulNone ==
  ASSUME NEW c \in QuotaConfigs, NEW t
  PROVE  Faithful(c, NoEvents(c), [k \in KeysOf(c) |-> << >>], t)
<1>1. << >> \in Seq(UsageEvents) /\ Len(<< >>) = 0 /\ 0 \in 0 .. 0 /\ \A i \in 1 .. 0 : FALSE
  BY SMT
<1>2. After(<< >>, 0) = << >>
  BY <1>1, AfterEnds
<1>3. Past(<< >>, t)
  BY <1>1 DEF Past, InOrder
<1>4. \A l \in WindowsOf(c) : Keeps(l, << >>, << >>, t)
  BY <1>1, <1>2 DEF Keeps
<1> QED BY <1>1, <1>3, <1>4, NamesOK DEF Faithful, NoEvents

(* What a window counts of a log. *)
Counted(l, lg, t) == Ideal!Selected(lg, {i \in DOMAIN lg : Counts(l, lg[i].at, t)})

Exact(c, evs, lgs, t) ==
  \A l \in WindowsOf(c) : rolled(c, evs, t)[l.window.name] = Counted(l, lgs[Key(l)], t)

(* After a rollover every window has exactly what it counts.               *)
LEMMA FaithfulRolled ==
  ASSUME StartsInOrder, NEW c, NEW evs, NEW lgs, NEW t \in Times, Faithful(c, evs, lgs, t)
  PROVE  Faithful(c, rolled(c, evs, t), lgs, t) /\ Exact(c, evs, lgs, t)
<1> DEFINE new == rolled(c, evs, t)
<1>0. c \in QuotaConfigs
  BY DEF Faithful
<1>1. ASSUME NEW l \in WindowsOf(c)
      PROVE  LET lg == lgs[Key(l)]
             IN  \E k \in 0 .. Len(lg) : /\ new[l.window.name] = After(lg, k)
                                         /\ \A i \in 1 .. Len(lg) : i <= k <=> ~Counts(l, lg[i].at, t)
  <2> DEFINE lg == lgs[Key(l)]
             s == evs[l.window.name]
             kept == IF Given(l.all) THEN discardBefore(s, bounds(l.all, t)[1]) ELSE s
  <2>0. /\ l \in Windows /\ Key(l) \in KeysOf(c) /\ l.window.name \in NamesOf(c)
        /\ Named(c, l.window.name) = l.window /\ l.all = c.resetAll
    BY <1>0, <1>1, NamesOK
  <2>1. InOrder(lg)
    BY <2>0 DEF Faithful, Past
  <2>2. PICK m \in 0 .. Len(lg) : s = After(lg, m) /\ \A i \in 1 .. Len(lg) : i <= m => ~Counts(l, lg[i].at, t)
    BY <1>1 DEF Faithful, Keeps
  <2>3. new[l.window.name] = rolloverWindow(l.window, kept, t)
    BY <2>0 DEF rolled, Given
  <2> HIDE DEF lg, s
  <2>4. /\ lg \in Seq(UsageEvents) /\ Len(lg) \in Nat /\ InOrder(s) /\ Len(s) = Len(lg) - m
        /\ \A i \in 1 .. Len(lg) - m : s[i] = lg[m + i]
    <3>1. lg \in Seq(UsageEvents) /\ Len(lg) \in Nat
      BY <2>1, OrderedTimes
    <3>2. InOrder(s)
      BY <2>1, <2>2, InOrderOK
    <3> QED BY <2>2, <3>1, <3>2, AfterOK
  <2>5. PICK b \in 0 .. Len(s) : /\ rolloverWindow(l.window, kept, t) = After(s, b)
                                 /\ \A i \in 1 .. Len(s) : i <= b <=> ~Counts(l, s[i].at, t)
    BY <2>0, <2>4, RolloverCounts
  <2> HIDE DEF kept, new
  <2>6. m + b \in 0 .. Len(lg) /\ After(s, b) = After(lg, m + b)
    <3>1. b \in 0 .. Len(lg) - m
      BY <2>4, <2>5
    <3> QED BY <2>2, <2>4, <3>1, AfterAfter
  <2>7. \A i \in 1 .. Len(lg) : i <= m + b <=> ~Counts(l, lg[i].at, t)
    <3> TAKE i \in 1 .. Len(lg)
    <3>1. CASE i <= m
      <4>1. i <= m + b
        BY SMT, <2>4, <3>1
      <4> QED BY <2>2, <3>1, <4>1
    <3>2. CASE ~(i <= m)
      <4> DEFINE j == i - m
      <4>1. j \in 1 .. Len(lg) - m /\ m + j = i /\ (j <= b <=> i <= m + b)
        BY SMT, <2>4, <3>2
      <4>2. s[j] = lg[i] /\ j \in 1 .. Len(s)
        BY <2>4, <4>1
      <4> QED BY <2>5, <4>1, <4>2
    <3> QED BY <3>1, <3>2
  <2> QED BY <2>3, <2>5, <2>6, <2>7 DEF lg
<1>2. \A l \in WindowsOf(c) : Key(l) \in KeysOf(c)
  BY <1>0, NamesOK
<1>3. \A l \in WindowsOf(c) : Keeps(l, new[l.window.name], lgs[Key(l)], t) /\ new[l.window.name] \in Seq(UsageEvents)
  <2> TAKE l \in WindowsOf(c)
  <2> DEFINE lg == lgs[Key(l)]
  <2>1. PICK k \in 0 .. Len(lg) : /\ new[l.window.name] = After(lg, k)
                                  /\ \A i \in 1 .. Len(lg) : i <= k <=> ~Counts(l, lg[i].at, t)
    BY <1>1
  <2>2. lg \in Seq(UsageEvents)
    BY <1>2 DEF Faithful
  <2>3. After(lg, k) \in Seq(UsageEvents)
    BY <2>1, <2>2, AfterOK
  <2> HIDE DEF new
  <2> QED BY <2>1, <2>3 DEF Keeps
<1>4. new \in [NamesOf(c) -> Seq(UsageEvents)]
  <2>1. \A n \in NamesOf(c) : new[n] \in Seq(UsageEvents)
    <3> TAKE n \in NamesOf(c)
    <3>1. PICK l \in WindowsOf(c) : l.window.name = n
      BY <1>0, NamesOK
    <3> QED BY <1>3, <3>1
  <2>2. DOMAIN new = NamesOf(c) /\ new = [n \in NamesOf(c) |-> new[n]]
    BY DEF rolled
  <2> HIDE DEF new
  <2> QED BY <2>1, <2>2
<1>5. \A l \in WindowsOf(c) : new[l.window.name] = Counted(l, lgs[Key(l)], t)
  <2> TAKE l \in WindowsOf(c)
  <2> DEFINE lg == lgs[Key(l)]
             keep == {i \in DOMAIN lg : Counts(l, lg[i].at, t)}
  <2>1. PICK k \in 0 .. Len(lg) : /\ new[l.window.name] = After(lg, k)
                                  /\ \A i \in 1 .. Len(lg) : i <= k <=> ~Counts(l, lg[i].at, t)
    BY <1>1
  <2>2. lg \in Seq(UsageEvents)
    BY <1>2 DEF Faithful
  <2>3. DOMAIN lg = 1 .. Len(lg)
    BY SMT, <2>2
  <2>4. \A i : i \in keep <=> i \in 1 .. Len(lg) /\ ~(i <= k)
    BY <2>1, <2>3
  <2> HIDE DEF lg, keep, new
  <2>5. Ideal!Selected(lg, keep) = After(lg, k)
    BY <2>1, <2>2, <2>4, SelectedRest
  <2>6. new[l.window.name] = Ideal!Selected(lg, keep)
    BY <2>1, <2>5
  <2> QED BY <2>6 DEF lg, keep, Counted
<1> QED BY <1>3, <1>4, <1>5 DEF Faithful, Exact

AddedEvents(c, evs, e, taking) ==
  [n \in NamesOf(c) |-> IF Named(c, n) \in taking THEN Append(evs[n], e) ELSE evs[n]]
AddedLogs(c, lgs, e, taking) ==
  [k \in DOMAIN lgs |-> IF \E l \in WindowsOf(c) : l.window \in taking /\ k = Key(l)
                        THEN Append(lgs[k], e) ELSE lgs[k]]

(* Usage is added to the events and to the log of the windows that take it. *)
LEMMA FaithfulAdd ==
  ASSUME StartsInOrder, NEW c, NEW evs, NEW lgs, NEW t \in Times, Faithful(c, evs, lgs, t),
         NEW e \in UsageEvents, e.at = t, NEW taking
  PROVE  Faithful(c, AddedEvents(c, evs, e, taking), AddedLogs(c, lgs, e, taking), t)
<1> DEFINE takes(k) == \E l \in WindowsOf(c) : l.window \in taking /\ k = Key(l)
           new == [n \in NamesOf(c) |-> IF Named(c, n) \in taking THEN Append(evs[n], e) ELSE evs[n]]
           logs == [k \in DOMAIN lgs |-> IF takes(k) THEN Append(lgs[k], e) ELSE lgs[k]]
<1>0. /\ c \in QuotaConfigs /\ DOMAIN lgs = KeysOf(c) /\ DOMAIN evs = NamesOf(c) /\ t \in Int
      /\ \A n \in NamesOf(c) : evs[n] \in Seq(UsageEvents)
      /\ \A k \in KeysOf(c) : lgs[k] \in Seq(UsageEvents) /\ Past(lgs[k], t)
      /\ \A l \in WindowsOf(c) : Keeps(l, evs[l.window.name], lgs[Key(l)], t)
  BY QuotaTimes DEF Faithful
<1>1. \A s \in Seq(UsageEvents) : /\ Append(s, e) \in Seq(UsageEvents) /\ Len(s) \in Nat /\ Len(Append(s, e)) = Len(s) + 1
                                  /\ \A i \in 1 .. Len(s) : Append(s, e)[i] = s[i]
                                  /\ Append(s, e)[Len(s) + 1] = e
  BY SMT
<1>2. ASSUME NEW s, Past(s, t) PROVE Past(Append(s, e), t)
  <2> DEFINE a == Append(s, e)
  <2>1. InOrder(s) /\ \A i \in 1 .. Len(s) : s[i].at <= t
    BY <1>2 DEF Past
  <2>2. s \in Seq(UsageEvents) /\ Len(s) \in Nat /\ \A i, j \in 1 .. Len(s) : i <= j => s[i].at <= s[j].at
    BY <2>1, OrderedTimes DEF InOrder
  <2>3. \A i \in 1 .. Len(s) + 1 : i = Len(s) + 1 \/ i \in 1 .. Len(s)
    BY SMT, <2>2
  <2>4. \A i, j \in 1 .. Len(s) + 1 : i <= j => j = Len(s) + 1 \/ (i \in 1 .. Len(s) /\ j \in 1 .. Len(s))
    BY SMT, <2>2
  <2>5. a \in Seq(UsageEvents) /\ Len(a) = Len(s) + 1
    BY <1>1, <2>2
  <2>6. \A i \in 1 .. Len(s) : a[i] = s[i]
    BY <1>1, <2>2
  <2>7. a[Len(s) + 1] = e /\ e.at <= t
    BY SMT, <1>0, <1>1, <2>2
  <2> HIDE DEF a
  <2>8. \A i \in 1 .. Len(a) : a[i].at <= t
    BY <2>1, <2>3, <2>5, <2>6, <2>7
  <2>9. \A i, j \in 1 .. Len(a) : i <= j => a[i].at <= a[j].at
    <3> TAKE i, j \in 1 .. Len(a)
    <3> HAVE i <= j
    <3>1. CASE j = Len(s) + 1
      BY <2>7, <2>8, <3>1
    <3>2. CASE i \in 1 .. Len(s) /\ j \in 1 .. Len(s)
      BY <2>2, <2>6, <3>2
    <3> QED BY <2>4, <2>5, <3>1, <3>2
  <2>10. Past(a, t)
    BY <2>5, <2>8, <2>9 DEF Past, InOrder
  <2> QED BY <2>10 DEF a
<1>3. new \in [NamesOf(c) -> Seq(UsageEvents)]
  BY <1>0, <1>1
<1>4. logs \in [KeysOf(c) -> Seq(UsageEvents)] /\ \A k \in KeysOf(c) : Past(logs[k], t)
  BY <1>0, <1>1, <1>2
<1>5. \A l \in WindowsOf(c) : takes(Key(l)) <=> l.window \in taking
  <2>1. \A l, x \in WindowsOf(c) : Key(l) = Key(x) => l.window.name = x.window.name
    BY KeyParts
  <2>2. \A l, x \in WindowsOf(c) : l.window.name = x.window.name => l = x
    BY <1>0, NamesOK
  <2>3. \A l, x \in WindowsOf(c) : Key(l) = Key(x) => l = x
    BY <2>1, <2>2
  <2> QED BY <2>3
<1>6. ASSUME NEW l \in WindowsOf(c) PROVE Keeps(l, new[l.window.name], logs[Key(l)], t)
  <2> DEFINE lg == lgs[Key(l)]
             s == evs[l.window.name]
  <2>0. /\ Key(l) \in KeysOf(c) /\ l.window.name \in NamesOf(c) /\ Named(c, l.window.name) = l.window
    BY <1>0, <1>6, NamesOK
  <2>1. /\ new[l.window.name] = IF l.window \in taking THEN Append(s, e) ELSE s
        /\ logs[Key(l)] = IF l.window \in taking THEN Append(lg, e) ELSE lg
    BY <1>0, <1>5, <1>6, <2>0
  <2>2. PICK m \in 0 .. Len(lg) : s = After(lg, m) /\ \A i \in 1 .. Len(lg) : i <= m => ~Counts(l, lg[i].at, t)
    BY <1>0, <1>6 DEF Keeps
  <2>3. lg \in Seq(UsageEvents)
    BY <1>0, <2>0
  <2> HIDE DEF lg, s, new, logs
  <2>4. m \in 0 .. Len(Append(lg, e)) /\ After(Append(lg, e), m) = Append(s, e)
    <3>1. /\ m \in 0 .. Len(Append(lg, e))
          /\ After(Append(lg, e), m) = Append(After(lg, m), e)
      BY SMT, <2>2, <2>3, AfterAppend
    <3> QED BY <2>2, <3>1
  <2>5. \A i \in 1 .. Len(Append(lg, e)) : i <= m => i \in 1 .. Len(lg) /\ Append(lg, e)[i] = lg[i]
    <3>1. Len(lg) \in Nat /\ Len(Append(lg, e)) = Len(lg) + 1
      BY <1>1, <2>3
    <3>2. \A i \in 1 .. Len(lg) + 1 : i <= m => i \in 1 .. Len(lg)
      BY SMT, <2>2, <3>1
    <3> QED BY <1>1, <2>3, <3>1, <3>2
  <2>6. Keeps(l, Append(s, e), Append(lg, e), t)
    BY <2>2, <2>4, <2>5 DEF Keeps
  <2>7. Keeps(l, s, lg, t)
    BY <2>2 DEF Keeps
  <2> QED BY <2>1, <2>6, <2>7
<1> HIDE DEF new, logs
<1>7. Faithful(c, new, logs, t)
  BY <1>0, <1>3, <1>4, <1>6 DEF Faithful
<1> QED BY <1>7 DEF new, logs, AddedEvents, AddedLogs

(* A change of windows carries over what the new ones keep of their logs.  *)
LEMMA FaithfulKept ==
  ASSUME StartsInOrder, NEW c \in QuotaConfigs, NEW old, NEW evs, NEW lgs, NEW t \in Times, Faithful(old, evs, lgs, t)
  PROVE  Faithful(c, Kept(c, old, evs), KeptLog(c, lgs), t)
<1> DEFINE new == Kept(c, old, evs)
           logs == KeptLog(c, lgs)
           same(n) == /\ c.resetAll = old.resetAll /\ n \in NamesOf(old)
                      /\ compatible(Named(c, n), Named(old, n))
<1>0. /\ old \in QuotaConfigs /\ DOMAIN lgs = KeysOf(old)
      /\ \A n \in NamesOf(old) : evs[n] \in Seq(UsageEvents)
      /\ \A k \in KeysOf(old) : lgs[k] \in Seq(UsageEvents) /\ Past(lgs[k], t)
      /\ \A l \in WindowsOf(old) : Keeps(l, evs[l.window.name], lgs[Key(l)], t)
  BY DEF Faithful
<1>1. << >> \in Seq(UsageEvents) /\ Past(<< >>, t) /\ \A l : Keeps(l, << >>, << >>, t)
  <2>1. << >> \in Seq(UsageEvents) /\ Len(<< >>) = 0 /\ 0 \in 0 .. 0 /\ \A i \in 1 .. 0 : FALSE
    BY SMT
  <2>2. After(<< >>, 0) = << >>
    BY <2>1, AfterEnds
  <2> QED BY <2>1, <2>2 DEF Past, InOrder, Keeps
<1>2. new = [n \in NamesOf(c) |-> IF same(n) THEN evs[n] ELSE << >>]
  BY DEF Kept
<1>3. logs = [k \in KeysOf(c) |-> IF k \in KeysOf(old) THEN lgs[k] ELSE << >>]
  BY <1>0 DEF KeptLog
<1>4. new \in [NamesOf(c) -> Seq(UsageEvents)]
  <2>1. \A n \in NamesOf(c) : (IF same(n) THEN evs[n] ELSE << >>) \in Seq(UsageEvents)
    BY <1>0, <1>1
  <2> QED BY <1>2, <2>1
<1>5. logs \in [KeysOf(c) -> Seq(UsageEvents)] /\ \A k \in KeysOf(c) : Past(logs[k], t)
  BY <1>0, <1>1, <1>3
<1>6. ASSUME NEW l \in WindowsOf(c) PROVE Keeps(l, new[l.window.name], logs[Key(l)], t)
  <2> DEFINE n == l.window.name
  <2>0. /\ l \in Windows /\ Key(l) \in KeysOf(c) /\ n \in NamesOf(c)
        /\ Named(c, n) = l.window /\ l.all = c.resetAll
    BY <1>6, NamesOK
  <2>1. /\ new[n] = IF same(n) THEN evs[n] ELSE << >>
        /\ logs[Key(l)] = IF Key(l) \in KeysOf(old) THEN lgs[Key(l)] ELSE << >>
    BY <1>2, <1>3, <2>0
  <2>2. ASSUME NEW x \in WindowsOf(old)
        PROVE  x.all = old.resetAll /\ x.window.name \in NamesOf(old) /\ Named(old, x.window.name) = x.window
               /\ x \in Windows /\ Key(x) \in KeysOf(old)
    BY <1>0, <2>2, NamesOK
  <2>3. CASE same(n)
    <3>1. PICK x \in WindowsOf(old) : x.window.name = n
      BY <1>0, <2>3, NamesOK
    <3>2. Named(old, n) = x.window /\ x.all = old.resetAll /\ x \in Windows /\ Key(x) \in KeysOf(old)
      BY <2>2, <3>1
    <3>3. compatible(l.window, x.window) /\ l.all = x.all
      BY <2>0, <2>3, <3>2
    <3>4. Key(l) = Key(x)
      BY <3>1, <3>3, KeyParts DEF compatible
    <3>5. \A at \in Int : Counts(l, at, t) = Counts(x, at, t)
      BY <2>0, <3>2, <3>4, CountsOK
    <3> DEFINE lg == lgs[Key(x)]
    <3>6. Keeps(x, evs[n], lg, t) /\ \A i \in 1 .. Len(lg) : lg[i].at \in Int
      BY <1>0, <3>1, <3>2, OrderedTimes DEF Past
    <3> HIDE DEF lg
    <3>7. Keeps(l, evs[n], lg, t)
      BY <3>5, <3>6 DEF Keeps
    <3> QED BY <2>1, <2>3, <3>2, <3>4, <3>7 DEF lg
  <2>4. CASE ~same(n)
    <3>1. ASSUME NEW x \in WindowsOf(old), Key(x) = Key(l) PROVE same(n)
      <4>1. /\ x.window.name = n /\ x.all = l.all
            /\ compatible(l.window, x.window)
        BY <3>1, KeyParts DEF compatible
      <4> QED BY <2>0, <2>2, <4>1
    <3>2. Key(l) \notin KeysOf(old)
      BY <1>0, <2>4, <3>1, NamesOK
    <3> QED BY <1>1, <2>1, <2>4, <3>2
  <2> QED BY <2>3, <2>4
<1> HIDE DEF new, logs
<1>7. Faithful(c, new, logs, t)
  BY <1>4, <1>5, <1>6 DEF Faithful
<1> QED BY <1>7 DEF new, logs

-----------------------------------------------------------------------------
(* The inductive invariant: the windows in force, and those of the         *)
(* snapshot, keep what their logs say.                                     *)
WindowsInv ==
  /\ now \in Times /\ now <= MaxTime /\ cooldownUntil \in Int /\ nextProbeAt \in Int
  /\ Faithful(config, events, log, now)
  /\ latest = NoSnapshot => saved = << >>
  /\ latest # NoSnapshot => /\ Faithful(latest.config, latest.events, saved, now)
                            /\ latest.cooldownUntil \in Int /\ latest.nextProbeAt \in Int

(* Initially nothing is recorded.                                          *)
LEMMA WindowsInitOK ==
  ASSUME QuotaWindowsInit(QuotaConfigs)
  PROVE  WindowsInv /\ Ideal!IdealInit
<1>1. now \in Times /\ now <= MaxTime /\ 0 \in Int
  BY SMT, QuotaTimes DEF QuotaWindowsInit, Times
<1>2. Faithful(config, events, log, now)
  BY FaithfulNone DEF QuotaWindowsInit
<1>3. Ideal!IdealInit
  BY DEF QuotaWindowsInit, Ideal!IdealInit, KeysOf
<1> QED BY <1>1, <1>2, <1>3 DEF QuotaWindowsInit, WindowsInv

(* The clock.                                                              *)
LEMMA TickOK ==
  ASSUME StartsInOrder, WindowsInv, Tick
  PROVE  WindowsInv' /\ Ideal!IdealTick
<1>1. now \in Times /\ now' \in Times /\ now <= now' /\ now' <= MaxTime
  <2>1. now \in Times /\ now < MaxTime /\ now' = now + 1
    BY DEF WindowsInv, Tick
  <2> QED BY SMT, <2>1, QuotaTimes DEF Times
<1>2. UNCHANGED <<config, events, cooldownUntil, nextProbeAt, latest, log, saved>> /\ now' = now + 1 /\ verdict' = "none"
  BY DEF Tick, NoDecision, subjectVars
<1>3. Faithful(config, events, log, now')
  BY <1>1, FaithfulLater DEF WindowsInv
<1>4. latest # NoSnapshot => Faithful(latest.config, latest.events, saved, now')
  BY <1>1, FaithfulLater DEF WindowsInv
<1>5. WindowsInv'
  BY <1>1, <1>2, <1>3, <1>4 DEF WindowsInv
<1>6. Ideal!IdealTick
  BY <1>2 DEF Ideal!IdealTick
<1> QED BY <1>5, <1>6

(* A step that leaves the clock, the windows, their logs and the snapshot  *)
(* alone, and rolls the events over or not.                                *)
LEMMA EventsOK ==
  ASSUME StartsInOrder, WindowsInv, UNCHANGED <<now, config, latest, log, saved>>,
         events' = events \/ events' = Current, cooldownUntil' \in Int, nextProbeAt' \in Int
  PROVE  WindowsInv'
<1>1. Faithful(config, events', log, now)
  BY FaithfulRolled DEF WindowsInv, Current
<1> QED BY <1>1 DEF WindowsInv

(* The rollover of the cooldown gives a time.                              *)
LEMMA RolloverOK ==
  ASSUME StartsInOrder, WindowsInv, IF config.tracked THEN Rollover ELSE UNCHANGED <<events, cooldownUntil, nextProbeAt>>
  PROVE  /\ events' = events \/ events' = Current
         /\ cooldownUntil' \in Int /\ nextProbeAt' \in Int
<1>1. 0 \in Int
  BY SMT
<1> QED BY <1>1 DEF WindowsInv, Rollover

(* The windows that block are those the ideal finds full.                  *)
LEMMA BlockingIsFull ==
  ASSUME StartsInOrder, WindowsInv
  PROVE  blockingWindows # {} <=> Ideal!Full(now)
<1>1. config \in QuotaConfigs /\ now \in Times
  BY DEF WindowsInv, Faithful
<1>2. \A l \in WindowsOf(config) : Current[l.window.name] = Ideal!Within(l, now)
  <2>1. Faithful(config, events, log, now)
    BY DEF WindowsInv
  <2>2. Exact(config, events, log, now)
    BY <1>1, <2>1, FaithfulRolled
  <2> QED BY <2>2 DEF Exact, Current, Counted, Ideal!Within
<1>3. \A l \in WindowsOf(config) : l.window.name \in NamesOf(config) /\ Named(config, l.window.name) = l.window
  BY <1>1, NamesOK
<1>4. \A n \in NamesOf(config) : \E l \in WindowsOf(config) : l.window.name = n
  BY <1>1, NamesOK
<1>5. ASSUME NEW n \in blockingWindows PROVE Ideal!Full(now)
  <2>1. n \in NamesOf(config) /\ Limited(Named(config, n), Current[n])
    BY <1>5 DEF blockingWindows
  <2>2. PICK l \in WindowsOf(config) : l.window.name = n
    BY <1>4, <2>1
  <2>3. Limited(l.window, Ideal!Within(l, now))
    BY <1>2, <1>3, <2>1, <2>2
  <2> QED BY <2>3 DEF Ideal!Full
<1>6. ASSUME Ideal!Full(now) PROVE blockingWindows # {}
  <2>1. PICK l \in WindowsOf(config) : Limited(l.window, Ideal!Within(l, now))
    BY <1>6 DEF Ideal!Full
  <2>2. l.window.name \in blockingWindows
    BY <1>2, <1>3, <2>1 DEF blockingWindows
  <2> QED BY <2>2
<1> QED BY <1>5, <1>6

(* An admission: an untracked subject has no windows.                      *)
LEMMA BeforeAttemptOK ==
  ASSUME StartsInOrder, WindowsInv, beforeAttempt
  PROVE  WindowsInv' /\ Ideal!IdealDecide
<1> DEFINE cooling == config.tracked /\ ~config.client /\ InCooldown
           probe == cooling /\ now >= nextProbeAt /\ ~probeInFlight
<1>1. /\ UNCHANGED <<now, config, latest, log, saved>>
      /\ IF config.tracked THEN Rollover ELSE UNCHANGED <<events, cooldownUntil, nextProbeAt>>
      /\ verdict' = CASE probe -> "probe" [] cooling /\ ~probe -> "cooldown"
                      [] ~cooling /\ blockingWindows # {} -> "limited" [] OTHER -> "allowed"
  BY DEF beforeAttempt
<1>2. WindowsInv'
  BY <1>1, EventsOK, RolloverOK
<1>3. \/ cooling /\ verdict' \in {"probe", "cooldown"}
      \/ blockingWindows # {} /\ verdict' = "limited"
      \/ blockingWindows = {} /\ verdict' = "allowed"
  <2> HIDE DEF cooling, probe
  <2>1. CASE probe
    BY <1>1, <2>1 DEF probe
  <2>2. CASE cooling /\ ~probe
    BY <1>1, <2>2
  <2>3. CASE ~cooling
    BY <1>1, <2>3 DEF probe
  <2> QED BY <2>1, <2>2, <2>3
<1>4. Ideal!IdealDecide
  BY <1>1, <1>3, BlockingIsFull DEF Ideal!IdealDecide
<1> QED BY <1>2, <1>4

(* Usage is recorded: the ideal adds it to the windows that take it.       *)
LEMMA RecordUsageOK ==
  ASSUME StartsInOrder, WindowsInv, NEW a \in Amounts, RecordUsage(a)
  PROVE  WindowsInv' /\ Ideal!IdealRecord
<1> DEFINE e == usageEvent(now, a)
           taking == {w \in config.windows : Takes(w, a)}
           counts(k) == \E l \in WindowsOf(config) : l.window \in taking /\ k = Key(l)
           counted == {k \in KeysOf(config) : counts(k)}
<1>1. /\ events' = [n \in NamesOf(config) |-> IF Named(config, n) \in taking THEN Append(Current[n], e) ELSE Current[n]]
      /\ log' = [k \in DOMAIN log |-> IF counts(k) THEN Append(log[k], e) ELSE log[k]]
      /\ cooldownUntil' = 0 /\ nextProbeAt' = 0 /\ verdict' = "none"
      /\ UNCHANGED <<now, config, latest, saved>>
  BY DEF RecordUsage, NoDecision
<1>2. now \in Times /\ Faithful(config, Current, log, now) /\ DOMAIN log = KeysOf(config)
  BY FaithfulRolled DEF WindowsInv, Current, Faithful
<1>3. e \in UsageEvents /\ e.at = now
  <2>1. now \in Int
    BY <1>2, QuotaTimes
  <2>2. a \in [requests : Nat, tokens : Nat, cost : Nat]
    BY QuotaAssumption
  <2> QED BY <2>1, <2>2 DEF usageEvent, UsageEvents
<1> HIDE DEF e, taking
<1>4. Faithful(config, events', log', now)
  <2> DEFINE evs == Current
  <2>1. Faithful(config, evs, log, now) /\ now \in Times
    BY <1>2
  <2>2. events' = AddedEvents(config, evs, e, taking) /\ log' = AddedLogs(config, log, e, taking)
    BY <1>1 DEF AddedEvents, AddedLogs
  <2> HIDE DEF evs
  <2>3. Faithful(config, AddedEvents(config, evs, e, taking), AddedLogs(config, log, e, taking), now)
    BY <1>3, <2>1, FaithfulAdd
  <2> QED BY <2>2, <2>3
<1>5. WindowsInv'
  <2>1. 0 \in Int
    BY SMT
  <2> QED BY <1>1, <1>4, <2>1 DEF WindowsInv
<1>6. counted \in SUBSET Ideal!KeysOf(WindowsOf(config))
  BY DEF KeysOf
<1>7. log' = [k \in DOMAIN log |-> IF k \in counted THEN Append(log[k], usageEvent(now, a)) ELSE log[k]]
  BY <1>1, <1>2 DEF e
<1> HIDE DEF counted
<1>8. Ideal!IdealRecord
  BY <1>1, <1>6, <1>7 DEF Ideal!IdealRecord
<1> QED BY <1>5, <1>8

(* The logs of the windows in force are those of their identities.         *)
LEMMA LogIsOwn ==
  ASSUME WindowsInv
  PROVE  log = [k \in Ideal!KeysOf(WindowsOf(config)) |-> IF k \in DOMAIN log THEN log[k] ELSE << >>]
BY DEF WindowsInv, Faithful, KeysOf

(* A refusal of the provider starts a cooldown; the ideal keeps its usage. *)
LEMMA RecordQuotaExceededOK ==
  ASSUME StartsInOrder, WindowsInv, RecordQuotaExceeded
  PROVE  WindowsInv' /\ Ideal!IdealReconfigure
<1>1. /\ events' = Current /\ verdict' = "none" /\ UNCHANGED <<now, config, latest, log, saved>>
      /\ cooldownUntil' = now + config.cooldown /\ nextProbeAt' = now + config.probeInterval
  BY DEF RecordQuotaExceeded, NoDecision
<1>2. now \in Int /\ config.cooldown \in Nat /\ config.probeInterval \in Nat
  BY QuotaTimes, QuotaAssumption DEF WindowsInv, Faithful
<1>3. \A n \in Nat : now + n \in Int
  BY SMT, <1>2
<1>4. WindowsInv'
  BY <1>1, <1>2, <1>3, EventsOK
<1>5. Ideal!IdealReconfigure
  BY <1>1, LogIsOwn DEF Ideal!IdealReconfigure
<1> QED BY <1>4, <1>5

(* A snapshot has the windows in force and their events.                   *)
LEMMA SaveSnapshotOK ==
  ASSUME StartsInOrder, WindowsInv, SaveSnapshot
  PROVE  WindowsInv' /\ Ideal!IdealSave
<1>1. /\ IF config.tracked THEN Rollover ELSE UNCHANGED <<events, cooldownUntil, nextProbeAt>>
      /\ latest' = [config |-> config, events |-> events', cooldownUntil |-> cooldownUntil',
                    nextProbeAt |-> nextProbeAt']
      /\ saved' = log /\ verdict' = "none" /\ UNCHANGED <<now, config, log>>
  BY DEF SaveSnapshot, NoDecision
<1>2. (events' = events \/ events' = Current) /\ cooldownUntil' \in Int /\ nextProbeAt' \in Int
  BY <1>1, RolloverOK
<1>3. now \in Times /\ Faithful(config, events, log, now)
  BY DEF WindowsInv
<1>4. Faithful(config, events', log, now)
  BY <1>2, <1>3, FaithfulRolled DEF Current
<1>5. latest' # NoSnapshot
  <2>1. config \in QuotaConfigs /\ events' \in [NamesOf(config) -> Seq(UsageEvents)]
    BY <1>4 DEF Faithful
  <2>2. latest' \in Snapshots(config)
    BY <1>1, <1>2, <2>1 DEF Snapshots, UsageEvents
  <2> QED BY <2>1, <2>2, QuotaAssumption
<1>6. /\ latest'.config = config /\ latest'.events = events'
      /\ latest'.cooldownUntil = cooldownUntil' /\ latest'.nextProbeAt = nextProbeAt'
  BY <1>1
<1>7. WindowsInv'
  BY <1>1, <1>2, <1>3, <1>4, <1>5, <1>6 DEF WindowsInv
<1>8. Ideal!IdealSave
  BY <1>1 DEF Ideal!IdealSave
<1> QED BY <1>7, <1>8

(* A reload.                                                               *)
LEMMA ReconfigureOK ==
  ASSUME StartsInOrder, WindowsInv, NEW c \in QuotaConfigs, Reconfigure(c)
  PROVE  WindowsInv' /\ Ideal!IdealReconfigure
<1>1. /\ config' = c /\ events' = Kept(c, config, events) /\ log' = KeptLog(c, log)
      /\ verdict' = "none" /\ UNCHANGED <<now, latest, saved>>
  BY DEF Reconfigure, NoDecision
<1>2. cooldownUntil' \in Int /\ nextProbeAt' \in Int
  <2>1. 0 \in Int
    BY SMT
  <2> QED BY <2>1 DEF Reconfigure, WindowsInv
<1>3. Faithful(c, Kept(c, config, events), KeptLog(c, log), now)
  BY FaithfulKept DEF WindowsInv
<1>4. WindowsInv'
  BY <1>1, <1>2, <1>3 DEF WindowsInv
<1>5. Ideal!IdealReconfigure
  BY <1>1 DEF Ideal!IdealReconfigure, KeptLog, KeysOf
<1> QED BY <1>4, <1>5

(* A restart goes back to the snapshot, if there is one.                   *)
LEMMA RestartWithOK ==
  ASSUME StartsInOrder, WindowsInv, NEW c \in QuotaConfigs, RestartWith(c)
  PROVE  WindowsInv' /\ Ideal!IdealRestart
<1>1. /\ config' = c /\ log' = KeptLog(c, saved) /\ verdict' = "none" /\ UNCHANGED <<now, latest, saved>>
  BY DEF RestartWith, NoDecision
<1>2. now \in Times /\ 0 \in Int
  BY SMT DEF WindowsInv
<1>3. Ideal!IdealRestart
  BY <1>1 DEF Ideal!IdealRestart, KeptLog, KeysOf
<1>4. CASE latest = NoSnapshot \/ ~c.tracked
  <2>1. events' = NoEvents(c) /\ cooldownUntil' = 0 /\ nextProbeAt' = 0
    BY <1>4 DEF RestartWith
  <2>2. log' = [k \in KeysOf(c) |-> << >>]
    <3>1. CASE latest = NoSnapshot
      <4>1. saved = << >>
        BY <3>1 DEF WindowsInv
      <4>2. DOMAIN << >> = {}
        BY SMT
      <4> QED BY <1>1, <4>1, <4>2 DEF KeptLog
    <3>2. CASE ~c.tracked
      <4>1. KeysOf(c) = {}
        BY <3>2, QuotaAssumption DEF KeysOf, Ideal!KeysOf, WindowsOf
      <4> QED BY <1>1, <4>1 DEF KeptLog
    <3> QED BY <1>4, <3>1, <3>2
  <2>3. Faithful(c, events', log', now)
    BY <2>1, <2>2, FaithfulNone
  <2> QED BY <1>1, <1>2, <1>3, <2>1, <2>3 DEF WindowsInv
<1>5. CASE ~(latest = NoSnapshot \/ ~c.tracked)
  <2>1. /\ events' = rolled(c, Kept(c, latest.config, latest.events), now)
        /\ cooldownUntil' \in Int /\ nextProbeAt' \in Int
    BY <1>2, <1>5 DEF RestartWith, WindowsInv
  <2>2. Faithful(latest.config, latest.events, saved, now)
    BY <1>5 DEF WindowsInv
  <2>3. Faithful(c, Kept(c, latest.config, latest.events), KeptLog(c, saved), now)
    BY <1>2, <2>2, FaithfulKept
  <2>4. Faithful(c, events', log', now)
    BY <1>1, <1>2, <2>1, <2>3, FaithfulRolled
  <2> QED BY <1>1, <1>2, <1>3, <2>1, <2>4 DEF WindowsInv
<1> QED BY <1>4, <1>5

(* Every step preserves the invariant and is one the ideal may take.       *)
LEMMA WindowsStepOK ==
  ASSUME StartsInOrder, WindowsInv, [QuotaWindowsNext]_windowVars
  PROVE  WindowsInv' /\ [Ideal!IdealNext]_Ideal!idealVars
<1>1. CASE Tick
  BY <1>1, TickOK DEF Ideal!IdealNext
<1>2. CASE beforeAttempt
  BY <1>2, BeforeAttemptOK DEF Ideal!IdealNext
<1>3. CASE RecordQuotaExceeded
  BY <1>3, RecordQuotaExceededOK DEF Ideal!IdealNext
<1>4. CASE SaveSnapshot
  BY <1>4, SaveSnapshotOK DEF Ideal!IdealNext
<1>5. ASSUME NEW a \in Amounts, RecordUsage(a) PROVE WindowsInv' /\ Ideal!IdealNext
  BY <1>5, RecordUsageOK DEF Ideal!IdealNext
<1>6. ASSUME NEW c \in QuotaConfigs, Reconfigure(c) PROVE WindowsInv' /\ Ideal!IdealNext
  BY <1>6, ReconfigureOK DEF Ideal!IdealNext
<1>7. ASSUME NEW c \in QuotaConfigs, RestartWith(c) PROVE WindowsInv' /\ Ideal!IdealNext
  BY <1>7, RestartWithOK DEF Ideal!IdealNext
<1>8. CASE UNCHANGED windowVars
  BY <1>8 DEF windowVars, subjectVars, WindowsInv, Ideal!idealVars
<1> QED BY <1>1, <1>2, <1>3, <1>4, <1>5, <1>6, <1>7, <1>8 DEF QuotaWindowsNext

(* The tracker decides as the ideal does, which forgets nothing: whatever  *)
(* it discards as time passes, carries over a reload, writes to a snapshot *)
(* and reads back, a request is refused for its windows exactly when the   *)
(* usage within one of them reaches a limit (tracker.go beforeAttempt,     *)
(* rollover, mergeWindows, ExportState, ImportState).  The calendar is any *)
(* in which no period starts before an earlier one did: see StartsInOrder. *)
THEOREM QuotaImplementsIdealCorrect ==
  ASSUME StartsInOrder
  PROVE  QuotaWindowsSpec => QuotaImplementsIdeal
<1>1. QuotaWindowsInit(QuotaConfigs) => WindowsInv /\ Ideal!IdealInit
  BY WindowsInitOK
<1>2. WindowsInv /\ [QuotaWindowsNext]_windowVars => WindowsInv' /\ [Ideal!IdealNext]_Ideal!idealVars
  BY WindowsStepOK
<1> QED BY <1>1, <1>2, PTL DEF QuotaWindowsSpec, QuotaImplementsIdeal, Ideal!IdealSpec

-----------------------------------------------------------------------------
(* An event has an amount of every kind.                                   *)
LEMMA FieldOK ==
  ASSUME NEW s \in Seq(UsageEvents), NEW i \in 1 .. Len(s), NEW f \in Fields
  PROVE  s[i][f] \in Nat
<1>1. s[i] \in UsageEvents
  BY SMT
<1>2. f = "requests" \/ f = "tokens" \/ f = "cost"
  BY DEF Fields
<1>3. s[i].requests \in Nat /\ s[i].tokens \in Nat /\ s[i].cost \in Nat
  BY <1>1 DEF UsageEvents
<1> QED BY <1>2, <1>3

(* The running sums of the first n events exist, for every n.              *)
LEMMA SumsExist ==
  ASSUME NEW s \in Seq(UsageEvents), NEW f \in Fields, NEW n \in 0 .. Len(s)
  PROVE  \E g \in [0 .. n -> Nat] : g[0] = 0 /\ \A i \in 1 .. n : g[i] = g[i - 1] + s[i][f]
<1> DEFINE P(m) == \E g \in [0 .. m -> Nat] : g[0] = 0 /\ \A i \in 1 .. m : g[i] = g[i - 1] + s[i][f]
           bad == {m \in 0 .. Len(s) : ~P(m)}
<1>0. Len(s) \in Nat /\ \A m \in 0 .. Len(s) : m \in Nat
  BY SMT
<1>1. P(0)
  <2> DEFINE g == [i \in 0 .. 0 |-> 0]
  <2>1. g \in [0 .. 0 -> Nat] /\ g[0] = 0 /\ \A i \in 1 .. 0 : g[i] = g[i - 1] + s[i][f]
    BY SMT
  <2> HIDE DEF g
  <2> QED BY <2>1
<1>2. ASSUME NEW m \in 1 .. Len(s), P(m - 1) PROVE P(m)
  <2>0. PICK g \in [0 .. m - 1 -> Nat] : g[0] = 0 /\ \A i \in 1 .. m - 1 : g[i] = g[i - 1] + s[i][f]
    BY <1>2
  <2> DEFINE x == s[m][f]
             h == [i \in 0 .. m |-> IF i = m THEN g[m - 1] + x ELSE g[i]]
  <2>1. x \in Nat
    BY FieldOK
  <2>2. m \in Nat \ {0} /\ \A i \in 1 .. m : i # m => i \in 1 .. m - 1
    BY SMT, <1>0
  <2>3. h \in [0 .. m -> Nat] /\ h[0] = 0
    <3> HIDE DEF x
    <3> QED BY SMT, <2>0, <2>1, <2>2
  <2>4. h[m] = h[m - 1] + s[m][f]
    <3>1. h[m] = g[m - 1] + x /\ h[m - 1] = g[m - 1]
      <4> HIDE DEF x
      <4> QED BY SMT, <2>2
    <3> QED BY <3>1
  <2>5. ASSUME NEW i \in 1 .. m - 1 PROVE h[i] = h[i - 1] + s[i][f]
    <3>1. h[i] = g[i] /\ h[i - 1] = g[i - 1]
      <4> HIDE DEF x
      <4> QED BY SMT, <2>2
    <3> QED BY <2>0, <3>1
  <2> HIDE DEF h, x
  <2> QED BY <2>2, <2>3, <2>4, <2>5
<1> HIDE DEF P
<1>3. bad = {}
  <2> SUFFICES ASSUME bad # {} PROVE FALSE
    OBVIOUS
  <2>1. bad \in SUBSET Nat
    BY <1>0
  <2>2. PICK m \in bad : \A y \in bad : m <= y
    BY <2>1, LeastNumber
  <2>3. m # 0
    BY <1>1, <2>2
  <2>4. m \in 1 .. Len(s) /\ m - 1 \in 0 .. Len(s) /\ ~(m <= m - 1)
    BY SMT, <1>0, <2>2, <2>3
  <2>5. P(m - 1)
    BY <2>2, <2>4
  <2> QED BY <1>2, <2>2, <2>4, <2>5
<1>4. P(n)
  BY <1>3
<1> QED BY <1>4 DEF P

(* What the first k events add up to.                                      *)
Total(s, k, f) == RunningSum(s, f)[k]

(* It starts at 0, and each event adds its amount.                         *)
LEMMA TotalOK ==
  ASSUME NEW s \in Seq(UsageEvents), NEW f \in Fields
  PROVE  /\ Total(s, 0, f) = 0
         /\ \A i \in 1 .. Len(s) : Total(s, i, f) = Total(s, i - 1, f) + s[i][f]
         /\ \A i \in 0 .. Len(s) : Total(s, i, f) \in Nat
<1> DEFINE is(g) == g = [i \in 0 .. Len(s) |-> IF i = 0 THEN 0 ELSE g[i - 1] + s[i][f]]
           R == CHOOSE g : is(g)
           bad == {m \in 0 .. Len(s) : ~(R[m] \in Nat)}
<1>0. Len(s) \in Nat /\ \A m \in 0 .. Len(s) : m \in Nat
  BY SMT
<1>1. \E g : is(g)
  <2>1. Len(s) \in 0 .. Len(s)
    BY SMT, <1>0
  <2>2. PICK g \in [0 .. Len(s) -> Nat] : g[0] = 0 /\ \A i \in 1 .. Len(s) : g[i] = g[i - 1] + s[i][f]
    BY <2>1, SumsExist
  <2>3. \A i \in 0 .. Len(s) : i = 0 \/ i \in 1 .. Len(s)
    BY SMT, <1>0
  <2>4. \A i \in 0 .. Len(s) : g[i] = IF i = 0 THEN 0 ELSE g[i - 1] + s[i][f]
    BY <2>2, <2>3
  <2>5. g = [i \in 0 .. Len(s) |-> g[i]]
    BY <2>2
  <2>6. is(g)
    BY <2>4, <2>5
  <2> QED BY <2>6
<1>2. is(R)
  BY <1>1
<1>3. RunningSum(s, f) = R
  BY DEF RunningSum
<1> HIDE DEF R
<1>4. \A i \in 0 .. Len(s) : R[i] = IF i = 0 THEN 0 ELSE R[i - 1] + s[i][f]
  BY <1>2
<1>5. 0 \in 0 .. Len(s) /\ \A i \in 1 .. Len(s) : i \in 0 .. Len(s) /\ i # 0
  BY SMT, <1>0
<1>6. R[0] = 0 /\ \A i \in 1 .. Len(s) : R[i] = R[i - 1] + s[i][f]
  BY <1>4, <1>5
<1>7. bad = {}
  <2> SUFFICES ASSUME bad # {} PROVE FALSE
    OBVIOUS
  <2>1. bad \in SUBSET Nat
    BY <1>0
  <2>2. PICK m \in bad : \A y \in bad : m <= y
    BY <2>1, LeastNumber
  <2>3. 0 \in Nat
    BY SMT
  <2>4. m # 0
    BY <1>6, <2>2, <2>3
  <2>5. m \in 1 .. Len(s) /\ m - 1 \in 0 .. Len(s) /\ ~(m <= m - 1)
    BY SMT, <1>0, <2>2, <2>4
  <2>6. R[m - 1] \in Nat /\ s[m][f] \in Nat
    BY <2>2, <2>5, FieldOK
  <2>7. R[m - 1] + s[m][f] \in Nat
    BY SMT, <2>6
  <2> QED BY <1>6, <2>2, <2>5, <2>7
<1> QED BY <1>3, <1>6, <1>7 DEF Total

(* Of a stretch of the events after the first k: it adds up to what is     *)
(* added after the first k.                                                *)
LEMMA TotalOfStretch ==
  ASSUME NEW s \in Seq(UsageEvents), NEW f \in Fields, NEW k \in 0 .. Len(s),
         NEW p \in Seq(UsageEvents), Len(p) <= Len(s) - k, \A i \in 1 .. Len(p) : p[i] = s[k + i]
  PROVE  \A j \in 0 .. Len(p) : Total(s, k + j, f) = Total(s, k, f) + Total(p, j, f)
<1> DEFINE ok(j) == Total(s, k + j, f) = Total(s, k, f) + Total(p, j, f)
           bad == {j \in 0 .. Len(p) : ~ok(j)}
<1>0. Len(s) \in Nat /\ Len(p) \in Nat /\ k \in Nat /\ \A m \in 0 .. Len(p) : m \in Nat
  BY SMT
<1>1. Total(s, k, f) \in Nat /\ Total(p, 0, f) = 0
  BY TotalOK
<1>2. k + 0 = k /\ Total(s, k, f) = Total(s, k, f) + 0
  BY SMT, <1>0, <1>1
<1>3. ok(0)
  BY <1>1, <1>2
<1>4. ASSUME NEW j \in 1 .. Len(p), ok(j - 1) PROVE ok(j)
  <2>1. /\ k + j \in 1 .. Len(s) /\ (k + j) - 1 = k + (j - 1) /\ j - 1 \in 0 .. Len(p)
    BY SMT, <1>0
  <2>2. Total(s, k + j, f) = Total(s, k + (j - 1), f) + s[k + j][f]
    BY <2>1, TotalOK
  <2>3. Total(p, j, f) = Total(p, j - 1, f) + p[j][f] /\ Total(p, j - 1, f) \in Nat
    BY <2>1, TotalOK
  <2>4. p[j] = s[k + j] /\ p[j][f] \in Nat
    BY FieldOK
  <2> DEFINE a == Total(s, k, f)
             b == Total(p, j - 1, f)
             c == p[j][f]
  <2>5. \A x, y, z \in Nat : (x + y) + z = x + (y + z)
    BY SMT
  <2>6. (a + b) + c = a + (b + c)
    BY <1>1, <2>3, <2>4, <2>5
  <2>7. Total(s, k + (j - 1), f) = a + b /\ s[k + j][f] = c /\ Total(p, j, f) = b + c
    BY <1>4, <2>3, <2>4
  <2> QED BY <2>2, <2>6, <2>7
<1> HIDE DEF ok
<1>5. bad = {}
  <2> SUFFICES ASSUME bad # {} PROVE FALSE
    OBVIOUS
  <2>1. bad \in SUBSET Nat
    BY <1>0
  <2>2. PICK m \in bad : \A y \in bad : m <= y
    BY <2>1, LeastNumber
  <2>3. m # 0
    BY <1>3, <2>2
  <2>4. m \in 1 .. Len(p) /\ m - 1 \in 0 .. Len(p) /\ ~(m <= m - 1)
    BY SMT, <1>0, <2>2, <2>3
  <2>5. ok(m - 1)
    BY <2>2, <2>4
  <2> QED BY <1>4, <2>2, <2>4, <2>5
<1> QED BY <1>5 DEF ok

(* The sums of the first events, of the events after them and of all.      *)
LEMMA UsageOK ==
  ASSUME NEW s \in Seq(UsageEvents), NEW f \in Fields
  PROVE  /\ usage(s, f) = Total(s, Len(s), f) /\ usage(s, f) \in Nat
         /\ \A k \in 0 .. Len(s) : /\ Total(s, k, f) \in Nat
                                   /\ usage(SubSeq(s, 1, k), f) = Total(s, k, f)
                                   /\ Total(s, Len(s), f) = Total(s, k, f) + usage(After(s, k), f)
                                   /\ usage(After(s, k), f) \in Nat
         /\ \A i, j \in 0 .. Len(s) : i <= j => Total(s, i, f) <= Total(s, j, f)
<1>0. Len(s) \in Nat /\ Len(s) \in 0 .. Len(s) /\ 0 \in 0 .. Len(s)
  BY SMT
<1>1. \A e \in Seq(UsageEvents) : /\ usage(e, f) = Total(e, Len(e), f) /\ Len(e) \in 0 .. Len(e)
                                  /\ Total(e, Len(e), f) \in Nat
  <2> TAKE e \in Seq(UsageEvents)
  <2>1. Len(e) \in 0 .. Len(e)
    BY SMT
  <2>2. Total(e, Len(e), f) \in Nat
    BY <2>1, TotalOK
  <2> QED BY <2>1, <2>2 DEF usage, Total
<1>2. ASSUME NEW k \in 0 .. Len(s)
      PROVE  usage(SubSeq(s, 1, k), f) = Total(s, k, f)
  <2> DEFINE p == SubSeq(s, 1, k)
  <2>1. p \in Seq(UsageEvents) /\ Len(p) = k /\ Len(p) <= Len(s) - 0 /\ \A i \in 1 .. Len(p) : p[i] = s[0 + i]
    BY SMT, <1>0
  <2>0. k \in 0 .. Len(p)
    <3> HIDE DEF p
    <3> QED BY SMT, <1>0, <2>1
  <2> HIDE DEF p
  <2>2. Total(s, 0 + k, f) = Total(s, 0, f) + Total(p, k, f)
    BY <1>0, <2>0, <2>1, TotalOfStretch
  <2>3. Total(s, 0, f) = 0 /\ Total(p, k, f) \in Nat
    BY <1>1, <2>1, TotalOK
  <2>4. 0 + k = k /\ 0 + Total(p, k, f) = Total(p, k, f)
    BY SMT, <2>3
  <2> QED BY <1>1, <2>1, <2>2, <2>3, <2>4 DEF p
<1>3. ASSUME NEW k \in 0 .. Len(s)
      PROVE  /\ Total(s, Len(s), f) = Total(s, k, f) + usage(After(s, k), f)
             /\ usage(After(s, k), f) \in Nat
  <2> DEFINE p == After(s, k)
  <2>1. p \in Seq(UsageEvents) /\ Len(p) = Len(s) - k /\ \A i \in 1 .. Len(s) - k : p[i] = s[k + i]
    BY AfterOK
  <2>2. Len(p) <= Len(s) - k /\ k + Len(p) = Len(s)
    <3> HIDE DEF p
    <3> QED BY SMT, <1>0, <2>1
  <2> HIDE DEF p
  <2>3. Total(s, k + Len(p), f) = Total(s, k, f) + Total(p, Len(p), f)
    <3>1. \A i \in 1 .. Len(p) : p[i] = s[k + i]
      BY <2>1
    <3> QED BY <1>1, <2>1, <2>2, <3>1, TotalOfStretch
  <2> QED BY <1>1, <2>1, <2>2, <2>3 DEF p
<1>4. ASSUME NEW i \in 0 .. Len(s), NEW j \in 0 .. Len(s), i <= j
      PROVE  Total(s, i, f) <= Total(s, j, f)
  <2> DEFINE p == After(s, i)
             d == j - i
  <2>1. p \in Seq(UsageEvents) /\ Len(p) = Len(s) - i /\ \A m \in 1 .. Len(s) - i : p[m] = s[i + m]
    BY AfterOK
  <2>2. Len(p) <= Len(s) - i /\ d \in 0 .. Len(p) /\ i + d = j
    <3> HIDE DEF p
    <3> QED BY SMT, <1>0, <1>4, <2>1
  <2> HIDE DEF p, d
  <2>3. Total(s, i + d, f) = Total(s, i, f) + Total(p, d, f)
    <3>1. \A m \in 1 .. Len(p) : p[m] = s[i + m]
      BY <2>1
    <3> QED BY <2>1, <2>2, <3>1, TotalOfStretch
  <2>4. Total(s, i, f) \in Nat /\ Total(p, d, f) \in Nat
    BY <2>1, <2>2, TotalOK
  <2>5. \A a, b \in Nat : a <= a + b
    BY SMT
  <2> QED BY <2>2, <2>3, <2>4, <2>5
<1> QED BY <1>0, <1>1, <1>2, <1>3, <1>4, TotalOK

-----------------------------------------------------------------------------
(* A window is full when one of its limits is reached.                     *)
LEMMA LimitedOK ==
  ASSUME NEW w, w.max \in [Fields -> Nat], NEW s \in Seq(UsageEvents)
  PROVE  /\ Limited(w, s) <=> \E f \in Fields : w.max[f] > 0 /\ usage(s, f) >= w.max[f]
         /\ \A f \in Fields : /\ Excess(w, s, f) \in Nat /\ Excess(w, s, f) <= usage(s, f)
                              /\ Excess(w, s, f) = IF w.max[f] > 0 /\ usage(s, f) >= w.max[f]
                                                   THEN usage(s, f) - w.max[f] + 1 ELSE 0
<1>1. \A f \in Fields : usage(s, f) \in Nat /\ w.max[f] \in Nat
  BY UsageOK
<1>2. \A f \in Fields : Excess(w, s, f) = IF w.max[f] > 0 /\ usage(s, f) >= w.max[f]
                                          THEN usage(s, f) - w.max[f] + 1 ELSE 0
  BY DEF Excess
<1>3. \A f \in Fields : /\ Excess(w, s, f) \in Nat /\ Excess(w, s, f) <= usage(s, f)
                        /\ Excess(w, s, f) > 0 <=> w.max[f] > 0 /\ usage(s, f) >= w.max[f]
  <2> TAKE f \in Fields
  <2> DEFINE u == usage(s, f)
             m == w.max[f]
  <2>1. u \in Nat /\ m \in Nat
    BY <1>1
  <2>2. \A a, b \in Nat : LET x == IF b > 0 /\ a >= b THEN a - b + 1 ELSE 0
                          IN  x \in Nat /\ x <= a /\ (x > 0 <=> b > 0 /\ a >= b)
    BY SMT
  <2> QED BY <1>2, <2>1, <2>2
<1> QED BY <1>2, <1>3 DEF Limited

(* What a window counts is the end of its log, from what it counts on.     *)
Rest(l, lg, t, k) ==
  /\ k \in 0 .. Len(lg) /\ Counted(l, lg, t) = After(lg, k)
  /\ \A i \in 1 .. Len(lg) : i <= k <=> ~Counts(l, lg[i].at, t)

(* There is such an end. *)
LEMMA CountedIsRest ==
  ASSUME StartsInOrder, NEW l \in Windows, NEW lg, InOrder(lg), NEW t \in Times
  PROVE  \E k \in 0 .. Len(lg) : Rest(l, lg, t, k)
<1> DEFINE kept == IF Given(l.all) THEN discardBefore(lg, bounds(l.all, t)[1]) ELSE lg
           keep == {i \in DOMAIN lg : Counts(l, lg[i].at, t)}
<1>1. PICK k \in 0 .. Len(lg) : \A i \in 1 .. Len(lg) : i <= k <=> ~Counts(l, lg[i].at, t)
  <2>1. \E k \in 0 .. Len(lg) : /\ rolloverWindow(l.window, kept, t) = After(lg, k)
                                /\ \A i \in 1 .. Len(lg) : i <= k <=> ~Counts(l, lg[i].at, t)
    BY RolloverCounts
  <2> QED BY <2>1
<1>2. lg \in Seq(UsageEvents)
  BY OrderedTimes
<1>3. DOMAIN lg = 1 .. Len(lg)
  BY SMT, <1>2
<1>4. \A i : i \in keep <=> i \in 1 .. Len(lg) /\ ~(i <= k)
  BY <1>1, <1>3
<1> HIDE DEF keep
<1>5. Ideal!Selected(lg, keep) = After(lg, k)
  BY <1>1, <1>2, <1>4, SelectedRest
<1>6. Counted(l, lg, t) = After(lg, k)
  BY <1>5 DEF Counted, keep
<1> QED BY <1>1, <1>6 DEF Rest

(* A shorter end of a log reaches no limit that the longer one does not.   *)
LEMMA LimitedLess ==
  ASSUME NEW w, w.max \in [Fields -> Nat], NEW s \in Seq(UsageEvents),
         NEW k \in 0 .. Len(s), NEW m \in 0 .. Len(s), k <= m, Limited(w, After(s, m))
  PROVE  Limited(w, After(s, k))
<1>1. After(s, k) \in Seq(UsageEvents) /\ After(s, m) \in Seq(UsageEvents)
  BY AfterOK
<1>2. PICK f \in Fields : w.max[f] > 0 /\ usage(After(s, m), f) >= w.max[f]
  BY <1>1, LimitedOK
<1> DEFINE a == usage(After(s, k), f)
           b == usage(After(s, m), f)
           p == Total(s, k, f)
           q == Total(s, m, f)
<1>3. /\ Total(s, Len(s), f) = p + a /\ Total(s, Len(s), f) = q + b /\ p <= q
      /\ a \in Nat /\ b \in Nat /\ p \in Nat /\ q \in Nat
  BY UsageOK
<1>4. w.max[f] \in Nat
  OBVIOUS
<1> HIDE DEF a, b, p, q
<1>5. p + a = q + b
  BY <1>3
<1>6. a >= b
  BY SMT, <1>3, <1>5
<1>7. \A x, y, z \in Nat : x >= y /\ y >= z => x >= z
  BY SMT
<1>8. a >= w.max[f]
  BY <1>2, <1>3, <1>4, <1>6, <1>7 DEF b
<1> QED BY <1>1, <1>2, <1>8, LimitedOK DEF a

(* Nothing reaches no limit. *)
LEMMA NothingIsUnlimited ==
  ASSUME NEW w, w.max \in [Fields -> Nat]
  PROVE  ~Limited(w, << >>)
<1>1. << >> \in Seq(UsageEvents) /\ Len(<< >>) = 0
  BY SMT
<1>2. \A f \in Fields : usage(<< >>, f) = 0
  BY <1>1, UsageOK, TotalOK
<1>3. \A f \in Fields : w.max[f] \in Nat
  OBVIOUS
<1>4. \A n \in Nat : ~(n > 0 /\ 0 >= n)
  BY SMT
<1>5. \A f \in Fields : ~(w.max[f] > 0 /\ usage(<< >>, f) >= w.max[f])
  BY <1>2, <1>3, <1>4
<1>6. Limited(w, << >>) <=> \E f \in Fields : w.max[f] > 0 /\ usage(<< >>, f) >= w.max[f]
  BY <1>1, LimitedOK
<1> QED BY <1>5, <1>6

(* The limits of a window are numbers, and its length within the horizon.  *)
LEMMA WindowLimits ==
  ASSUME NEW l \in Windows
  PROVE  /\ l.window.max \in [Fields -> Nat]
         /\ MaxTime + l.window.duration <= Horizon
         /\ l.window.reset # "fixed" => l.window.duration > 0
         /\ l.window.reset = "fixed" => \A t \in Times : t <= MaxTime => bounds(l.window.schedule, t)[2] <= Horizon
<1>1. PICK c \in QuotaConfigs : l \in WindowsOf(c)
  BY DEF Windows
<1>2. PICK w \in c.windows : l = [window |-> w, all |-> c.resetAll]
  BY <1>1 DEF WindowsOf
<1>3. l.window = w
  BY <1>2
<1>4. /\ w.max \in [Fields -> Nat] /\ (w.reset = "rolling" => w.duration > 0)
      /\ w.reset \in {"fixed", "rolling"}
  BY QuotaAssumption
<1>5. /\ MaxTime + w.duration <= Horizon
      /\ w.reset = "fixed" => \A t \in StartTime .. MaxTime : bounds(w.schedule, t)[2] <= Horizon
  BY HorizonAssumption
<1>6. \A t \in Times : t <= MaxTime => t \in StartTime .. MaxTime
  BY SMT, QuotaTimes DEF Times
<1>7. w.reset = "fixed" => \A t \in Times : t <= MaxTime => bounds(w.schedule, t)[2] <= Horizon
  BY <1>5, <1>6
<1>8. w.reset # "fixed" => w.duration > 0
  BY <1>4
<1> QED BY <1>3, <1>4, <1>5, <1>7, <1>8

(* A window that is not full stays so without further usage.               *)
LEMMA StaysAdmitted ==
  ASSUME StartsInOrder, NEW l \in Windows, NEW lg, InOrder(lg), NEW t \in Times, NEW u \in Times, t <= u,
         Limited(l.window, Counted(l, lg, u))
  PROVE  Limited(l.window, Counted(l, lg, t))
<1>1. PICK k \in 0 .. Len(lg) : Rest(l, lg, t, k)
  BY CountedIsRest
<1>2. PICK m \in 0 .. Len(lg) : Rest(l, lg, u, m)
  BY CountedIsRest
<1>3. lg \in Seq(UsageEvents) /\ Len(lg) \in Nat /\ \A i \in 1 .. Len(lg) : lg[i].at \in Int
  BY OrderedTimes
<1>4. \A i \in 1 .. Len(lg) : i <= k => i <= m
  BY <1>1, <1>2, <1>3, CountsOK DEF Rest
<1>5. k <= m
  BY SMT, <1>3, <1>4
<1> QED BY <1>1, <1>2, <1>3, <1>5, LimitedLess, WindowLimits DEF Rest

(* The retry time of a window that is full at t: it is later, the window   *)
(* admits from then on and, unless reset_all empties it, not before.       *)
RetryRight(l, lg, t, r) ==
  /\ r \in Int /\ t < r /\ r <= Horizon
  /\ \A u \in Times : r <= u => ~Limited(l.window, Counted(l, lg, u))
  /\ ~Given(l.all) => \A u \in Times : t <= u /\ u < r => Limited(l.window, Counted(l, lg, u))

(* A fixed window: the end of its period.                                  *)
LEMMA RetryFixed ==
  ASSUME StartsInOrder, NEW l \in Windows, NEW lg, NEW t \in Times, t <= MaxTime, Past(lg, t),
         l.window.reset = "fixed", RegularPeriod(l.window.schedule, t), Limited(l.window, Counted(l, lg, t))
  PROVE  RetryRight(l, lg, t, retryAfter(l.window, Counted(l, lg, t), t))
<1> DEFINE b(u) == bounds(l.window.schedule, u)
           r == b(t)[2]
<1>1. retryAfter(l.window, Counted(l, lg, t), t) = r
  BY DEF retryAfter
<1>2. InOrder(lg) /\ \A i \in 1 .. Len(lg) : lg[i].at <= t
  BY DEF Past
<1>3. lg \in Seq(UsageEvents) /\ Len(lg) \in Nat /\ \A i \in 1 .. Len(lg) : lg[i].at \in Int
  BY <1>2, OrderedTimes
<1>4. l.window.schedule \in Schedules /\ t \in Int
  BY WindowsOK, QuotaTimes
<1>5. t <= t
  BY SMT, <1>4
<1>6. r \in Int /\ t < r /\ r <= Horizon /\ Regular(l.window.schedule, t)
  BY <1>4, <1>5, BoundsMonotone, WindowLimits DEF RegularPeriod
<1>11. r \in Times /\ t <= r /\ r \in t .. r
  BY SMT, <1>4, <1>6, QuotaTimes DEF Times
<1>12. \A u \in t .. r : Regular(l.window.schedule, u)
  BY DEF RegularPeriod
<1>13. r <= b(r)[1] /\ b(r)[1] \in Int
  <2>1. r <= r
    BY SMT, <1>6
  <2> QED BY <1>4, <1>6, <1>11, <1>12, <2>1, BoundsMonotone
<1>7. \A u \in Times : t <= u => /\ b(u)[1] \in Int /\ (u < r => b(u)[1] = b(t)[1]) /\ (r <= u => r <= b(u)[1])
  <2> TAKE u \in Times
  <2> HAVE t <= u
  <2>1. u \in Int
    BY QuotaTimes
  <2>2. b(u)[1] \in Int
    BY <1>4, StartsMonotone
  <2>3. CASE u < r
    <3>1. u \in t .. r
      BY SMT, <1>4, <1>6, <2>1, <2>3
    <3> QED BY <1>4, <1>6, <1>12, <2>2, <2>3, <3>1, BoundsMonotone
  <2>4. CASE r <= u
    <3>1. b(r)[1] <= b(u)[1]
      BY <1>4, <1>11, <2>4, StartsMonotone
    <3>2. \A x, y, z \in Int : x <= y /\ y <= z => x <= z
      BY SMT
    <3>3. ~(u < r)
      BY SMT, <1>6, <2>1, <2>4
    <3> QED BY <1>6, <1>13, <2>2, <3>1, <3>2, <3>3
  <2> QED BY SMT, <1>6, <2>1, <2>3, <2>4
<1> HIDE DEF b, r
<1>8. \A u \in Times, at \in Int : Counts(l, at, u) => b(u)[1] <= at
  BY DEF Counts, b
<1>9. ASSUME NEW u \in Times, r <= u PROVE ~Limited(l.window, Counted(l, lg, u))
  <2>1. PICK k \in 0 .. Len(lg) : Rest(l, lg, u, k)
    BY <1>2, CountedIsRest
  <2>2. u \in Int
    BY QuotaTimes
  <2>3. t <= u
    BY SMT, <1>4, <1>6, <1>9, <2>2
  <2>4. b(u)[1] \in Int /\ r <= b(u)[1]
    BY <1>7, <1>9, <2>3
  <2>5. \A i \in 1 .. Len(lg) : ~(b(u)[1] <= lg[i].at)
    <3> TAKE i \in 1 .. Len(lg)
    <3>1. lg[i].at \in Int /\ lg[i].at <= t
      BY <1>2, <1>3
    <3>2. \A x, y, z, w \in Int : x <= y /\ y < z /\ z <= w => ~(w <= x)
      BY SMT
    <3> QED BY <1>4, <1>6, <2>4, <3>1, <3>2
  <2>6. \A i \in 1 .. Len(lg) : i <= k
    BY <1>3, <1>8, <2>1, <2>5 DEF Rest
  <2>7. k = Len(lg)
    BY SMT, <1>3, <2>6
  <2>8. Counted(l, lg, u) = << >>
    BY <1>3, <2>1, <2>7, AfterEnds DEF Rest
  <2> QED BY <2>8, NothingIsUnlimited, WindowLimits
<1>10. ASSUME ~Given(l.all), NEW u \in Times, t <= u, u < r PROVE Limited(l.window, Counted(l, lg, u))
  <2>1. b(u)[1] = b(t)[1]
    BY <1>7, <1>10
  <2>2. \A at : Counts(l, at, u) <=> Counts(l, at, t)
    BY <1>10, <2>1 DEF Counts, b, Given
  <2>3. {i \in DOMAIN lg : Counts(l, lg[i].at, u)} = {i \in DOMAIN lg : Counts(l, lg[i].at, t)}
    BY <2>2
  <2>4. Counted(l, lg, u) = Counted(l, lg, t)
    BY <2>3 DEF Counted
  <2> QED BY <2>4
<1> QED BY <1>1, <1>6, <1>9, <1>10 DEF RetryRight

(* A set of numbers has a least one, which Min chooses. *)
LEMMA MinIsLeast ==
  ASSUME NEW S \in SUBSET Nat, S # {}
  PROVE  Min(S) \in S /\ \A y \in S : Min(S) <= y
<1>1. PICK x \in S : \A y \in S : x <= y
  BY LeastNumber
<1> QED BY <1>1 DEF Min

(* A rolling window: when enough of its first events have left.            *)
LEMMA RetryRolling ==
  ASSUME StartsInOrder, NEW l \in Windows, NEW lg, NEW t \in Times, t <= MaxTime, Past(lg, t),
         l.window.reset # "fixed", Limited(l.window, Counted(l, lg, t))
  PROVE  RetryRight(l, lg, t, retryAfter(l.window, Counted(l, lg, t), t))
<1> DEFINE w == l.window
           d == w.duration
           s == Counted(l, lg, t)
           n == Len(lg)
           enough == {i \in DOMAIN s : \A f \in Fields : usage(SubSeq(s, 1, i), f) >= Excess(w, s, f)}
           m == Min(enough)
           T(i, f) == Total(lg, i, f)
<1>1. retryAfter(w, s, t) = s[m].at + d
  BY DEF retryAfter
<1>2. InOrder(lg) /\ \A i \in 1 .. n : lg[i].at <= t
  BY DEF Past
<1>3. lg \in Seq(UsageEvents) /\ n \in Nat /\ \A i \in 1 .. n : lg[i].at \in Int
  BY <1>2, OrderedTimes
<1>4. /\ w.max \in [Fields -> Nat] /\ \A f \in Fields : w.max[f] \in Nat
  BY WindowLimits
<1>5. d \in Nat /\ t \in Int /\ MaxTime \in Int /\ Horizon \in Int /\ MaxTime + d <= Horizon /\ \A u \in Times : u \in Int
  BY WindowsOK, WindowLimits, QuotaTimes
<1>6. PICK k \in 0 .. n : Rest(l, lg, t, k)
  BY <1>2, CountedIsRest
<1>7. s = After(lg, k) /\ \A i \in 1 .. n : i <= k <=> ~Counts(l, lg[i].at, t)
  BY <1>6 DEF Rest
<1>8. \A u \in Times, at \in Int : /\ Counts(l, at, u) => u - d < at
                                   /\ ~Given(l.all) => (Counts(l, at, u) <=> u - d < at)
  BY DEF Counts, Given
<1> HIDE DEF s, w, d, n
<1>9. s \in Seq(UsageEvents) /\ Len(s) = n - k /\ (\A i \in 1 .. n - k : s[i] = lg[k + i]) /\ DOMAIN s = 1 .. Len(s)
  <2>1. s \in Seq(UsageEvents) /\ Len(s) = n - k /\ \A i \in 1 .. n - k : s[i] = lg[k + i]
    BY <1>3, <1>6, <1>7, AfterOK DEF n
  <2>2. DOMAIN s = 1 .. Len(s)
    BY SMT, <2>1
  <2> QED BY <2>1, <2>2
<1>10. \A f \in Fields : /\ usage(s, f) \in Nat /\ T(k, f) \in Nat /\ T(n, f) = T(k, f) + usage(s, f)
                         /\ \A i \in 0 .. n - k : usage(SubSeq(s, 1, i), f) \in Nat /\ T(k + i, f) = T(k, f) + usage(SubSeq(s, 1, i), f)
  <2> TAKE f \in Fields
  <2>1. usage(s, f) \in Nat /\ T(k, f) \in Nat /\ T(n, f) = T(k, f) + usage(s, f)
    BY <1>3, <1>6, <1>7, UsageOK DEF n
  <2>2. ASSUME NEW i \in 0 .. n - k
        PROVE  usage(SubSeq(s, 1, i), f) \in Nat /\ T(k + i, f) = T(k, f) + usage(SubSeq(s, 1, i), f)
    <3>1. usage(SubSeq(s, 1, i), f) = Total(s, i, f) /\ Total(s, i, f) \in Nat
      BY <1>9, <2>2, UsageOK
    <3>2. Len(s) <= Len(lg) - k /\ (\A j \in 1 .. Len(s) : s[j] = lg[k + j])
      <4>1. n - k <= n - k
        BY SMT, <1>3
      <4> QED BY <1>9, <4>1 DEF n
    <3>3. i \in 0 .. Len(s) /\ k \in 0 .. Len(lg)
      BY <1>6, <1>9, <2>2 DEF n
    <3>4. Total(lg, k + i, f) = Total(lg, k, f) + Total(s, i, f)
      BY <1>3, <1>9, <3>2, <3>3, TotalOfStretch
    <3> QED BY <3>1, <3>4
  <2> QED BY <2>1, <2>2
<1>11. \A f \in Fields : /\ Excess(w, s, f) \in Nat /\ Excess(w, s, f) <= usage(s, f)
                         /\ Excess(w, s, f) = IF w.max[f] > 0 /\ usage(s, f) >= w.max[f]
                                              THEN usage(s, f) - w.max[f] + 1 ELSE 0
  BY <1>4, <1>9, LimitedOK
<1>12. m \in 1 .. n - k /\ m \in enough /\ \A j \in enough : m <= j
  <2>0. Len(s) \in Nat /\ \A i \in 1 .. Len(s) : i \in Nat
    BY SMT, <1>9
  <2>1. s # << >>
    BY <1>4, NothingIsUnlimited DEF s, w
  <2>2. Len(s) \in 1 .. Len(s) /\ SubSeq(s, 1, Len(s)) = s
    BY SMT, <1>9, <2>1
  <2>3. \A f \in Fields : usage(s, f) >= Excess(w, s, f)
    BY SMT, <1>10, <1>11
  <2>4. Len(s) \in enough
    BY <1>9, <2>2, <2>3
  <2>5. enough \in SUBSET Nat /\ enough # {}
    BY <1>9, <2>0, <2>4
  <2>6. m \in enough /\ \A j \in enough : m <= j
    BY <2>5, MinIsLeast
  <2> QED BY <1>9, <2>6
<1> DEFINE p == k + m
           r == lg[p].at + d
<1>13. p \in 1 .. n /\ p \in 0 .. n /\ ~(p <= k) /\ s[m] = lg[p] /\ m \in 0 .. n - k
  <2>1. m \in 1 .. n - k
    BY <1>12
  <2> HIDE DEF m
  <2>2. k + m \in 1 .. n /\ k + m \in 0 .. n /\ ~(k + m <= k) /\ m \in 0 .. n - k
    BY SMT, <1>3, <1>6, <2>1
  <2> QED BY <1>9, <2>1, <2>2
<1>14. lg[p].at \in Int /\ lg[p].at <= t /\ t - d < lg[p].at
  BY <1>2, <1>3, <1>7, <1>8, <1>13
<1>15. r \in Int /\ t < r /\ r <= Horizon /\ \A u \in Int : r <= u <=> ~(u - d < lg[p].at)
  <2> DEFINE a == lg[p].at
  <2>1. a \in Int /\ a <= t /\ t - d < a
    BY <1>14
  <2> HIDE DEF a, p
  <2>2. a + d \in Int /\ t < a + d /\ a + d <= Horizon /\ \A u \in Int : a + d <= u <=> ~(u - d < a)
    BY SMT, <1>5, <2>1
  <2> QED BY <2>2 DEF a
<1>16. ASSUME NEW u \in Times, r <= u, Limited(w, Counted(l, lg, u)) PROVE FALSE
  <2>1. PICK j \in 0 .. n : Rest(l, lg, u, j)
    BY <1>2, CountedIsRest DEF n
  <2>2. ~Counts(l, lg[p].at, u)
    BY <1>5, <1>8, <1>14, <1>15, <1>16
  <2>3. p <= j
    BY <1>13, <2>1, <2>2 DEF Rest, n
  <2>4. Limited(w, After(lg, j))
    BY <1>16, <2>1 DEF Rest
  <2> HIDE DEF p, r
  <2>5. Limited(w, After(lg, p))
    BY <1>3, <1>4, <1>13, <2>1, <2>3, <2>4, LimitedLess DEF n
  <2>6. After(lg, p) \in Seq(UsageEvents)
    BY <1>3, <1>13, AfterOK DEF n
  <2>7. PICK f \in Fields : w.max[f] > 0 /\ usage(After(lg, p), f) >= w.max[f]
    BY <1>4, <2>5, <2>6, LimitedOK
  <2> DEFINE a == usage(After(lg, p), f)
             b == usage(SubSeq(s, 1, m), f)
             c == usage(s, f)
             e == Excess(w, s, f)
             x == w.max[f]
             y == T(k, f)
  <2>8. T(p, f) = y + b /\ b \in Nat /\ T(n, f) = y + c /\ c \in Nat /\ y \in Nat
    BY <1>10, <1>13 DEF p
  <2>9. T(n, f) = T(p, f) + a /\ a \in Nat
    BY <1>3, <1>13, UsageOK DEF n
  <2>10. b >= e /\ e = IF x > 0 /\ c >= x THEN c - x + 1 ELSE 0
    BY <1>11, <1>12
  <2>11. x \in Nat /\ x > 0 /\ a >= x
    BY <1>4, <2>7
  <2>12. (y + b) + a = y + c
    BY <2>8, <2>9
  <2> HIDE DEF a, b, c, e, x, y
  <2> QED BY SMT, <2>8, <2>9, <2>10, <2>11, <2>12
<1>17. ASSUME ~Given(l.all), NEW u \in Times, t <= u, u < r PROVE Limited(w, Counted(l, lg, u))
  <2>1. PICK j \in 0 .. n : Rest(l, lg, u, j)
    BY <1>2, CountedIsRest DEF n
  <2>2. u \in Int
    BY <1>5
  <2>3. u - d < lg[p].at
    <3>1. ~(r <= u)
      BY SMT, <1>15, <1>17, <2>2
    <3> QED BY <1>15, <2>2, <3>1
  <2>4. Counts(l, lg[p].at, u)
    BY <1>8, <1>14, <1>17, <2>3
  <2>5. ~(p <= j)
    BY <1>13, <2>1, <2>4 DEF Rest, n
  <2>6. \A i \in 1 .. n : i <= k => i <= j
    BY <1>3, <1>7, <1>17, <2>1, CountsOK DEF Rest, n
  <2>7. k <= j
    <3>1. CASE k = 0
      BY SMT, <3>1
    <3>2. CASE k # 0
      <4>1. k \in 1 .. n /\ k <= k
        BY SMT, <1>3, <3>2
      <4> QED BY <2>6, <4>1
    <3> QED BY <3>1, <3>2
  <2> DEFINE i == j - k
  <2>8. i \in 0 .. n - k /\ k + i = j /\ ~(m <= i) /\ (i # 0 => i \in 1 .. n - k)
    <3>1. p = k + m /\ m \in Int
      BY SMT, <1>12
    <3> HIDE DEF p, m
    <3> QED BY SMT, <1>3, <2>5, <2>7, <3>1
  <2> HIDE DEF i
  <2>9. CASE i = 0
    <3>1. j = k
      BY SMT, <1>3, <2>8, <2>9
    <3> QED BY <1>7, <2>1, <3>1 DEF Rest, s, w
  <2>10. CASE i # 0
    <3>1. i \notin enough /\ i \in DOMAIN s
      BY <1>9, <1>12, <2>8, <2>10
    <3>2. PICK f \in Fields : ~(usage(SubSeq(s, 1, i), f) >= Excess(w, s, f))
      BY <3>1
    <3> DEFINE a == usage(After(lg, j), f)
               b == usage(SubSeq(s, 1, i), f)
               c == usage(s, f)
               e == Excess(w, s, f)
               x == w.max[f]
               y == T(k, f)
    <3>3. T(j, f) = y + b /\ b \in Nat /\ T(n, f) = y + c /\ c \in Nat /\ y \in Nat
      BY <1>10, <2>8
    <3>4. T(n, f) = T(j, f) + a /\ a \in Nat
      BY <1>3, <2>1, UsageOK DEF n
    <3>5. ~(b >= e) /\ e = IF x > 0 /\ c >= x THEN c - x + 1 ELSE 0
      BY <1>11, <3>2
    <3>6. x \in Nat
      BY <1>4
    <3>7. (y + b) + a = y + c
      BY <3>3, <3>4
    <3> HIDE DEF a, b, c, e, x, y
    <3>8. x > 0 /\ a >= x
      BY SMT, <3>3, <3>4, <3>5, <3>6, <3>7
    <3>9. After(lg, j) \in Seq(UsageEvents)
      BY <1>3, <2>1, AfterOK DEF n
    <3>10. Limited(w, After(lg, j))
      BY <1>4, <3>8, <3>9, LimitedOK DEF a, x
    <3> QED BY <2>1, <3>10 DEF Rest
  <2> QED BY <2>9, <2>10
<1> HIDE DEF p, r
<1>18. retryAfter(l.window, Counted(l, lg, t), t) = r
  BY <1>1, <1>13 DEF w, s, r
<1> QED BY <1>15, <1>16, <1>17, <1>18 DEF RetryRight, w

-----------------------------------------------------------------------------
(* Some window of a configuration is full. *)
FullAt(c, lgs, t) == \E l \in WindowsOf(c) : Limited(l.window, Counted(l, lgs[Key(l)], t))

RetryTimes(c, lgs, t) ==
  {retryAfter(l.window, Counted(l, lgs[Key(l)], t), t) :
     l \in {x \in WindowsOf(c) : Limited(x.window, Counted(x, lgs[Key(x)], t))}}

(* A bounded set of times has a last one, which Max chooses. *)
LEMMA MaxIsLast ==
  ASSUME NEW S \in SUBSET Int, S # {}, NEW h \in Int, \A x \in S : x <= h
  PROVE  Max(S) \in S /\ \A y \in S : y <= Max(S)
<1> DEFINE below == {h - x : x \in S}
<1>0. \A x \in S : h - x \in Nat
  BY SMT
<1>1. below \in SUBSET Nat /\ below # {}
  BY <1>0
<1>2. PICK b \in below : \A y \in below : b <= y
  BY <1>1, LeastNumber
<1>3. PICK x \in S : b = h - x
  BY <1>2
<1>4. \A y \in S : h - x <= h - y
  BY <1>2, <1>3
<1>5. \A y \in S : x >= y
  BY SMT, <1>4
<1>6. Max(S) \in S /\ \A y \in S : Max(S) >= y
  BY <1>5 DEF Max
<1> QED BY SMT, <1>6

(* The last of the retry times of the full windows is when none is full,   *)
(* and one is full until then unless reset_all empties them.               *)
LEMMA RetryTimesOK ==
  ASSUME StartsInOrder, NEW c \in QuotaConfigs, NEW lgs, NEW t \in Times, t <= MaxTime,
         \A w \in c.windows : w.reset = "fixed" => RegularPeriod(w.schedule, t),
         \A k \in KeysOf(c) : Past(lgs[k], t), FullAt(c, lgs, t)
  PROVE  LET r == Max(RetryTimes(c, lgs, t))
         IN  /\ r \in Int /\ r > t /\ r <= Horizon /\ ~FullAt(c, lgs, r)
             /\ ~Given(c.resetAll) => \A u \in t .. r - 1 : FullAt(c, lgs, u)
<1> DEFINE lg(l) == lgs[Key(l)]
           full(l) == Limited(l.window, Counted(l, lg(l), t))
           at(l) == retryAfter(l.window, Counted(l, lg(l), t), t)
           S == RetryTimes(c, lgs, t)
           r == Max(S)
<1>1. \A l \in WindowsOf(c) : l \in Windows /\ l.all = c.resetAll /\ Past(lg(l), t) /\ InOrder(lg(l))
  BY NamesOK DEF Past
<1>2. ASSUME NEW l \in WindowsOf(c), full(l) PROVE RetryRight(l, lg(l), t, at(l))
  <2>1. l.window \in c.windows
    BY SMT DEF WindowsOf
  <2> QED BY <1>1, <1>2, <2>1, RetryFixed, RetryRolling
<1>3. \A x : x \in S <=> \E l \in WindowsOf(c) : full(l) /\ x = at(l)
  BY DEF RetryTimes
<1>4. \E l \in WindowsOf(c) : full(l)
  BY DEF FullAt
<1> HIDE DEF full, at, S
<1>5. S \in SUBSET Int /\ S # {} /\ Horizon \in Int /\ \A x \in S : x <= Horizon
  <2>1. \A x \in S : x \in Int /\ x <= Horizon
    BY <1>2, <1>3 DEF RetryRight
  <2> QED BY <1>3, <1>4, <2>1, QuotaTimes
<1>6. r \in S /\ \A y \in S : y <= r
  BY <1>5, MaxIsLast
<1>7. PICK m \in WindowsOf(c) : full(m) /\ r = at(m)
  BY <1>3, <1>6
<1> HIDE DEF r
<1>8. r \in Int /\ t < r /\ r <= Horizon
  BY <1>2, <1>7 DEF RetryRight
<1>9. r \in Times /\ t <= r /\ r > t
  BY SMT, <1>8, QuotaTimes DEF Times
<1>10. ASSUME NEW l \in WindowsOf(c), Limited(l.window, Counted(l, lg(l), r)) PROVE FALSE
  <2>1. full(l)
    BY <1>1, <1>9, <1>10, StaysAdmitted DEF full
  <2>2. at(l) <= r
    BY <1>3, <1>6, <2>1
  <2> QED BY <1>2, <1>9, <1>10, <2>1, <2>2 DEF RetryRight
<1>11. ASSUME ~Given(c.resetAll), NEW u \in t .. r - 1 PROVE FullAt(c, lgs, u)
  <2>1. u \in Times /\ t <= u /\ u < r
    BY SMT, <1>8, QuotaTimes DEF Times
  <2>2. Limited(m.window, Counted(m, lg(m), u))
    BY <1>1, <1>2, <1>7, <1>11, <2>1 DEF RetryRight
  <2> QED BY <2>2 DEF FullAt
<1>12. ~FullAt(c, lgs, r)
  BY <1>10 DEF FullAt
<1> QED BY <1>8, <1>9, <1>11, <1>12 DEF r, S

(* The windows that block are the full ones, with what they count.         *)
LEMMA BlockingRetry ==
  ASSUME StartsInOrder, WindowsInv
  PROVE  {retryAfter(Named(config, n), Current[n], now) : n \in blockingWindows} = RetryTimes(config, log, now)
<1> DEFINE counted(l) == Counted(l, log[Key(l)], now)
<1>1. config \in QuotaConfigs /\ now \in Times
  BY DEF WindowsInv, Faithful
<1>2. \A l \in WindowsOf(config) : Current[l.window.name] = counted(l)
  <2>1. Faithful(config, events, log, now)
    BY DEF WindowsInv
  <2>2. Exact(config, events, log, now)
    BY <1>1, <2>1, FaithfulRolled
  <2> QED BY <2>2 DEF Exact, Current
<1>3. /\ \A l \in WindowsOf(config) : l.window.name \in NamesOf(config) /\ Named(config, l.window.name) = l.window
      /\ \A n \in NamesOf(config) : \E l \in WindowsOf(config) : l.window.name = n
  BY <1>1, NamesOK
<1> HIDE DEF counted
<1>4. \A n : n \in blockingWindows <=> n \in NamesOf(config) /\ Limited(Named(config, n), Current[n])
  BY DEF blockingWindows
<1>5. \A x : x \in RetryTimes(config, log, now) <=>
               \E l \in WindowsOf(config) : Limited(l.window, counted(l)) /\ x = retryAfter(l.window, counted(l), now)
  BY DEF RetryTimes, counted
<1>6. ASSUME NEW n \in blockingWindows
      PROVE  retryAfter(Named(config, n), Current[n], now) \in RetryTimes(config, log, now)
  <2>1. PICK l \in WindowsOf(config) : l.window.name = n
    BY <1>3, <1>4, <1>6
  <2>2. Named(config, n) = l.window /\ Current[n] = counted(l)
    BY <1>2, <1>3, <2>1
  <2> QED BY <1>4, <1>5, <1>6, <2>2
<1>7. ASSUME NEW x \in RetryTimes(config, log, now)
      PROVE  \E n \in blockingWindows : x = retryAfter(Named(config, n), Current[n], now)
  <2>1. PICK l \in WindowsOf(config) : Limited(l.window, counted(l)) /\ x = retryAfter(l.window, counted(l), now)
    BY <1>5, <1>7
  <2>2. l.window.name \in NamesOf(config) /\ Named(config, l.window.name) = l.window /\ Current[l.window.name] = counted(l)
    BY <1>2, <1>3
  <2>3. l.window.name \in blockingWindows
    BY <1>4, <2>1, <2>2
  <2> QED BY <2>1, <2>2, <2>3
<1> QED BY <1>6, <1>7

(* A refused request is told the right time.                               *)
LEMMA DecisionIsRight ==
  ASSUME StartsInOrder, WindowsInv, beforeAttempt
  PROVE  RetryAfterIsRight'
<1> SUFFICES ASSUME verdict' = "limited", WindowsRegular'
             PROVE  /\ retryAt' > now' /\ ~Ideal!Full(retryAt)'
                    /\ config'.resetAll.period = "" => \A t \in now' .. retryAt' - 1 : Ideal!Full(t)'
  BY DEF RetryAfterIsRight
<1> DEFINE cooling == config.tracked /\ ~config.client /\ InCooldown
           probe == cooling /\ now >= nextProbeAt /\ ~probeInFlight
<1>1. UNCHANGED <<now, config, log>>
  BY DEF beforeAttempt
<1>2. /\ verdict' = CASE probe -> "probe" [] cooling /\ ~probe -> "cooldown"
                      [] ~cooling /\ blockingWindows # {} -> "limited" [] OTHER -> "allowed"
      /\ retryAt' = CASE verdict' = "cooldown" -> nextProbeAt
                      [] verdict' = "limited" ->
                           Max({retryAfter(Named(config, n), Current[n], now) : n \in blockingWindows})
                      [] OTHER -> 0
  BY DEF beforeAttempt
<1>3. blockingWindows # {}
  <2> HIDE DEF cooling, probe
  <2>1. CASE probe
    BY <1>2, <2>1 DEF probe
  <2>2. CASE cooling /\ ~probe
    BY <1>2, <2>2
  <2>3. CASE ~cooling
    BY <1>2, <2>3 DEF probe
  <2> QED BY <2>1, <2>2, <2>3
<1>4. retryAt' = Max(RetryTimes(config, log, now))
  <2>1. retryAt' = Max({retryAfter(Named(config, n), Current[n], now) : n \in blockingWindows})
    BY <1>2
  <2> QED BY <2>1, BlockingRetry
<1>5. config \in QuotaConfigs /\ now \in Times /\ now <= MaxTime /\ \A k \in KeysOf(config) : Past(log[k], now)
  BY DEF WindowsInv, Faithful
<1>6. \A t : Ideal!Full(t) <=> FullAt(config, log, t)
  BY DEF Ideal!Full, Ideal!Within, FullAt, Counted
<1>7. \A t : Ideal!Full(t)' <=> FullAt(config, log, t)
  BY <1>1 DEF Ideal!Full, Ideal!Within, FullAt, Counted
<1>8. Ideal!Full(retryAt)' <=> FullAt(config, log, retryAt')
  BY <1>1 DEF Ideal!Full, Ideal!Within, FullAt, Counted
<1>9. FullAt(config, log, now)
  BY <1>3, <1>6, BlockingIsFull
<1>10. LET r == Max(RetryTimes(config, log, now))
       IN  /\ r \in Int /\ r > now /\ r <= Horizon /\ ~FullAt(config, log, r)
           /\ ~Given(config.resetAll) => \A u \in now .. r - 1 : FullAt(config, log, u)
  <2>1. \A w \in config.windows : w.reset = "fixed" => RegularPeriod(w.schedule, now)
    BY <1>1 DEF WindowsRegular
  <2> QED BY <1>5, <1>9, <2>1, RetryTimesOK
<1>11. /\ retryAt' > now /\ ~FullAt(config, log, retryAt')
       /\ config.resetAll.period = "" => \A u \in now .. retryAt' - 1 : FullAt(config, log, u)
  BY <1>4, <1>10 DEF Given
<1> QED BY <1>1, <1>7, <1>8, <1>11

(* A multiple of n leaves no remainder, and only a multiple does.          *)
LEMMA MultiplesOf ==
  ASSUME NEW n \in Nat \ {0}, NEW x \in Int
  PROVE  x % n = 0 <=> \E k \in Int : x = k * n
<1> DEFINE q == x \div n
           r == x % n
<1>1. q \in Int /\ r \in Int /\ 0 <= r /\ r < n /\ x = n * q + r
  BY SMT
<1> HIDE DEF q, r
<1>2. ASSUME r = 0 PROVE x = q * n
  BY SMT, <1>1, <1>2
<1>3. ASSUME NEW k \in Int, x = k * n PROVE r = 0
  <2> DEFINE d == k - q
  <2>1. d \in Int /\ r = d * n
    BY SMT, <1>1, <1>3
  <2> HIDE DEF d
  <2>2. CASE d = 0
    BY SMT, <2>1, <2>2
  <2>3. CASE d >= 1
    <3>1. d * n >= 1 * n
      BY SMT, <2>1, <2>3
    <3> QED BY SMT, <1>1, <2>1, <3>1
  <2>4. CASE d <= -1
    <3>1. d * n <= (-1) * n
      BY SMT, <2>1, <2>4
    <3> QED BY SMT, <1>1, <2>1, <3>1
  <2> QED BY SMT, <2>1, <2>2, <2>3, <2>4
<1> QED BY <1>1, <1>2, <1>3 DEF r

(* The instants of a schedule near t, and that its period is of them.      *)
LEMMA StrikesOK ==
  ASSUME NEW s \in Schedules, NEW t \in Times, Regular(s, t)
  PROVE  /\ \A x \in Strikes(s, t) : Strike(s, x)
         /\ bounds(s, t)[1] \in Strikes(s, t) /\ bounds(s, t)[2] \in Strikes(s, t)
<1> DEFINE b == bounds(s, t)[1]
           e == bounds(s, t)[2]
<1>1. b \in Int /\ e \in Int /\ b <= t /\ t < e /\ Strike(s, b) /\ Strike(s, e)
  BY PeriodOK DEF Period
<1>2. CASE s.period \in {"daily", "weekly"}
  <2>1. \A x : Strike(s, x) <=> x \in Strikes(s, t)
    BY <1>2 DEF Strike, Strikes
  <2> QED BY <1>1, <2>1
<1>3. CASE s.period \notin {"daily", "weekly"}
  <2> DEFINE a == s.anchor
             n == s.duration
  <2>1. a \in Int /\ n \in Nat \ {0}
    <3>1. PICK c \in QuotaConfigs : s \in SchedulesOf(c)
      BY DEF Schedules
    <3>2. s.period \notin {"", "daily", "weekly"}
      BY <1>3 DEF Schedules
    <3> QED BY <3>1, <3>2, QuotaAssumption
  <2>2. /\ \A x : Strike(s, x) <=> \E k \in Int : x = a + k * n
        /\ Strikes(s, t) = {x \in t - n .. t + n : (x - a) % n = 0}
    BY <1>3 DEF Strike, Strikes
  <2>3. e = b + n
    BY SMT, <1>3 DEF bounds
  <2>4. t \in Int
    BY QuotaTimes
  <2> HIDE DEF a, n, b, e
  <2>5. b \in t - n .. t + n /\ e \in t - n .. t + n /\ \A x \in t - n .. t + n : x \in Int
    BY SMT, <1>1, <2>1, <2>3, <2>4
  <2>6. ASSUME NEW x \in Int PROVE (x - a) % n = 0 <=> Strike(s, x)
    <3>1. x - a \in Int /\ \A y \in Int : x - a = y <=> x = a + y
      BY SMT, <2>1
    <3>2. \A k \in Int : k * n \in Int
      BY SMT, <2>1
    <3> QED BY <2>1, <2>2, <3>1, <3>2, MultiplesOf
  <2>7. (\A x \in Strikes(s, t) : Strike(s, x)) /\ b \in Strikes(s, t) /\ e \in Strikes(s, t)
    BY <1>1, <2>2, <2>5, <2>6
  <2> QED BY <2>7 DEF b, e
<1> QED BY <1>2, <1>3

(* Every period is a stretch of its schedule.                              *)
LEMMA SchedulesAreRight ==
  ASSUME WindowsInv
  PROVE  BoundsAreSchedule
<1>1. config \in QuotaConfigs /\ now \in Times /\ now <= MaxTime
  BY DEF WindowsInv, Faithful
<1>2. MaxTime + 6 <= Horizon
  BY HorizonAssumption
<1>3. \A t \in {now, now + 6} : t \in Times
  BY SMT, <1>1, <1>2, QuotaTimes DEF Times
<1>4. \A x, b, e \in Int : x <= b \/ e <= x => ~(b < x /\ x < e)
  BY SMT
<1>5. ASSUME NEW s \in {x \in SchedulesOf(config) : x.period # ""}, NEW t \in {now, now + 6},
             Regular(s, t)
      PROVE  LET strikes == Strikes(s, t)
                 b == bounds(s, t)
             IN  /\ {b[1], b[2]} \subseteq strikes
                 /\ b[1] <= t /\ t < b[2]
                 /\ ~\E x \in strikes : b[1] < x /\ x < b[2]
  <2> DEFINE b == bounds(s, t)[1]
             e == bounds(s, t)[2]
  <2>1. s \in Schedules /\ t \in Times
    BY <1>1, <1>3, <1>5 DEF Schedules
  <2>2. /\ b \in Int /\ e \in Int /\ b <= t /\ t < e
        /\ \A x : Strike(s, x) => x \in Int /\ (x <= b \/ e <= x)
    BY <1>5, <2>1, PeriodOK DEF Period
  <2>3. (\A x \in Strikes(s, t) : Strike(s, x)) /\ b \in Strikes(s, t) /\ e \in Strikes(s, t)
    BY <1>5, <2>1, StrikesOK
  <2> HIDE DEF b, e
  <2>4. ~\E x \in Strikes(s, t) : b < x /\ x < e
    BY <1>4, <2>2, <2>3
  <2> QED BY <2>2, <2>3, <2>4 DEF b, e
<1> QED BY <1>5 DEF BoundsAreSchedule

(* A step keeps the decision's time right or makes a new decision.         *)
LEMMA TimesStepOK ==
  ASSUME StartsInOrder, WindowsInv, RetryAfterIsRight, [QuotaWindowsNext]_windowVars
  PROVE  RetryAfterIsRight'
<1>1. CASE beforeAttempt
  BY <1>1, DecisionIsRight
<1>2. CASE UNCHANGED windowVars
  BY <1>2 DEF windowVars, RetryAfterIsRight, WindowsRegular, Ideal!Full, Ideal!Within
<1>3. CASE verdict' = "none"
  BY <1>3 DEF RetryAfterIsRight
<1>4. QuotaWindowsNext => beforeAttempt \/ verdict' = "none"
  BY DEF QuotaWindowsNext, Tick, RecordQuotaExceeded, SaveSnapshot, RecordUsage, Reconfigure, RestartWith, NoDecision
<1> QED BY <1>1, <1>2, <1>3, <1>4

(* The times the tracker works out are right for every schedule, window,   *)
(* limit and history: a period is the stretch of its schedule around the   *)
(* clock, and a refused request is admitted at the time it is told, not    *)
(* before (tracker.go bounds, civilBounds, retryAfter, blockingWindows).   *)
(* The calendar may lack a reset's reading on some days; of the periods of *)
(* such days nothing is said.                                              *)
THEOREM TimesAreRightCorrect ==
  ASSUME StartsInOrder
  PROVE  QuotaWindowsSpec => []TimesAreRight
<1>1. QuotaWindowsInit(QuotaConfigs) => WindowsInv /\ RetryAfterIsRight
  BY WindowsInitOK DEF QuotaWindowsInit, RetryAfterIsRight
<1>2. WindowsInv /\ RetryAfterIsRight /\ [QuotaWindowsNext]_windowVars => WindowsInv' /\ RetryAfterIsRight'
  BY WindowsStepOK, TimesStepOK
<1>3. WindowsInv /\ RetryAfterIsRight => TimesAreRight
  BY SchedulesAreRight DEF TimesAreRight
<1> QED BY <1>1, <1>2, <1>3, PTL DEF QuotaWindowsSpec
=============================================================================
