------------------------------ MODULE RecentLog ------------------------------
(***************************************************************************)
(* internal/logging/recent.go: the bounded buffer of recent log lines that *)
(* answers a query of the admin log view from memory, when it can say that *)
(* it has everything the query asks for.  A chunk is a sequence of         *)
(* segments [len, ended]: so many bytes, then a newline or the chunk's     *)
(* end.  One tick is the nanosecond the code adds.                         *)
(***************************************************************************)
EXTENDS Integers, Lists

CONSTANTS RecentAge, RecentBytes,   \* the buffer's bounds
          Chunks,                   \* what one Write may be given
          RecentLastTick,           \* bound: the clock
          MaxLines                  \* bound: lines completed

(* A chunk is cut at its newlines. *)
ASSUME ChunkAssumption == Chunks \subseteq Seq([len : Nat, ended : BOOLEAN])

VARIABLES recentNow,
          recent,      \* [lines, bytes, partial, begun, dropping, coverageFrom];
                       \* a line is [line, begun, at, size], numbered as in written
          written      \* history: every line completed: [begun, at]

recentVars == <<recentNow, recent, written>>

RecentInit ==
  /\ recentNow = 1 /\ written = << >>
  /\ recent = [lines |-> << >>, bytes |-> 0, partial |-> 0, begun |-> 0,
               dropping |-> FALSE, coverageFrom |-> 1]

advanceCoverage(b, t) == [b EXCEPT !.coverageFrom = IF t > @ THEN t ELSE @]

(* Mutant: what is evicted for its size leaves the coverage as it is. *)
evictForgets(b, t) ==
  LET gone(n) == FoldFunction(LAMBDA l, sum : l.size + sum, 0, SubSeq(b.lines, 1, n))
      old(n)  == \/ RecentAge > 0 /\ b.lines[n].at < t - RecentAge
                 \/ b.bytes - gone(n - 1) > RecentBytes
      n == Max({0} \cup {k \in DOMAIN b.lines : \A j \in 1 .. k : old(j)})
  IN  [b EXCEPT !.lines = SubSeq(@, n + 1, Len(@)), !.bytes = @ - gone(n)]

(* evictLocked: lines go from the front while the first is too old or the  *)
(* bytes are too many, and the coverage starts after the last to go.       *)
evict(b, t) ==
  LET gone(n) == FoldFunction(LAMBDA l, sum : l.size + sum, 0, SubSeq(b.lines, 1, n))
      old(n)  == \/ RecentAge > 0 /\ b.lines[n].at < t - RecentAge
                 \/ b.bytes - gone(n - 1) > RecentBytes
      n == Max({0} \cup {k \in DOMAIN b.lines : \A j \in 1 .. k : old(j)})
      kept == [b EXCEPT !.lines = SubSeq(@, n + 1, Len(@)), !.bytes = @ - gone(n)]
  IN  IF n = 0 THEN b ELSE advanceCoverage(kept, b.lines[n].at + 1)

(* appendPartialLocked: a line that cannot fit is dropped from here on. *)
appendPartial(b, len, t) ==
  IF len = 0 THEN b
  ELSE IF b.partial + len + 1 > RecentBytes
  THEN advanceCoverage([b EXCEPT !.partial = 0, !.dropping = TRUE], t + 1)
  ELSE [b EXCEPT !.partial = @ + len]

(* One turn of Write's loop; line is the number of the line it is in. *)
Segment(b, seg, t, line) ==
  IF b.dropping THEN [b EXCEPT !.dropping = ~seg.ended]
  ELSE LET c == appendPartial(b, seg.len, t)
       IN  IF ~seg.ended THEN c
           ELSE IF c.dropping THEN [c EXCEPT !.dropping = FALSE]
           ELSE evict([c EXCEPT !.lines = Append(@, [line |-> line, begun |-> c.begun, at |-> t,
                                                     size |-> c.partial + 1]),
                                !.bytes = @ + c.partial + 1, !.partial = 0], t)

(* A line begins with the first chunk that has some of it. *)
Begin(b, t) == IF b.partial = 0 /\ ~b.dropping THEN [b EXCEPT !.begun = t] ELSE b

(* A turn with what it completes: s is [buffer, written]. *)
SegmentTurn(s, seg, t) ==
  LET b == Begin(s.buffer, t)
  IN  [buffer  |-> Segment(b, seg, t, Len(s.written) + 1),
       written |-> IF seg.ended THEN Append(s.written, [begun |-> b.begun, at |-> t])
                   ELSE s.written]

(* What Write's loop has done after each of the chunk's segments. *)
SegmentTurns(chunk, s, t) ==
  LET after[i \in 0 .. Len(chunk)] == IF i = 0 THEN s ELSE SegmentTurn(after[i - 1], chunk[i], t)
  IN  after

WriteRecent(chunk) ==
  LET s == [buffer |-> evict(recent, recentNow), written |-> written]
      done == SegmentTurns(chunk, s, recentNow)[Len(chunk)]
  IN  /\ Len(written) < MaxLines
      /\ recent' = done.buffer
      /\ written' = done.written
      /\ UNCHANGED recentNow

RecentTick == recentNow < RecentLastTick /\ recentNow' = recentNow + 1 /\ UNCHANGED <<recent, written>>

(* Snapshot evicts as well; what it returns is Lines and Covered below. *)
ReadRecent == recent' = evict(recent, recentNow) /\ UNCHANGED <<recentNow, written>>

RecentNext == RecentTick \/ ReadRecent \/ (\E chunk \in Chunks : WriteRecent(chunk))

RecentSpec == RecentInit /\ [][RecentNext]_recentVars

Lines(since, until) ==
  {l \in ToSet(evict(recent, recentNow).lines) : since <= l.at /\ l.at <= until}

Covered(since) ==
  LET from == evict(recent, recentNow).coverageFrom
  IN  since >= from /\ (RecentAge > 0 => since >= recentNow - RecentAge)

-----------------------------------------------------------------------------
(* When Snapshot says that it covers a query, the lines it returns that    *)
(* were begun since then are exactly those begun since then and completed  *)
(* by the query's end, however lines are cut into chunks and whatever was  *)
(* evicted or dropped (recent.go Snapshot; the admin log view then does    *)
(* not read the files).                                                    *)
CoveredIsComplete ==
  \A since, until \in 1 .. recentNow :
     Covered(since) =>
       {l.line : l \in {x \in Lines(since, until) : x.begun >= since}}
         = {i \in DOMAIN written : written[i].begun >= since /\ written[i].at <= until}
=============================================================================
