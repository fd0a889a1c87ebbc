------------------------------ MODULE UsageLog ------------------------------
(***************************************************************************)
(* internal/accounting/local_file.go: usage records are counted in memory, *)
(* handed over a bounded queue to a worker, appended to day-partitioned    *)
(* JSONL files and covered by snapshots.  A snapshot carries a cursor, the *)
(* last line appended; a restart takes the totals of latest.json and       *)
(* replays the lines after its cursor.                                     *)
(*                                                                         *)
(* A path is <<day, part>>, ordered as its file name is.  A line is the    *)
(* record it holds, Torn (written in part, no newline yet) or Bad (a       *)
(* complete line that is not JSON).  The totals are kept per record: how   *)
(* often each one is counted.                                              *)
(***************************************************************************)
EXTENDS Integers, Sequences, FiniteSets

CONSTANTS Records,              \* the usage records of a run of the system
          QueueSize,            \* queue_size
          WriteBufferRecords,   \* write_buffer_records
          RotateLines,          \* rotate_max_size_mb, in lines
          RetentionDays,        \* retention_days
          MaxDay,               \* bound: the last day of a run
          MaxPart,              \* bound: the last part of a day
          MaxStarts,            \* bound: how often the process starts
          Crashes,              \* whether the process may die
          TornWrites,           \* whether a crash may leave part of a line
          DiskErrors,           \* whether opening and writing files may fail
          Torn, Bad

ASSUME LogAssumption ==
  /\ IsFiniteSet(Records)
  /\ QueueSize \in Nat \ {0} /\ WriteBufferRecords \in Nat \ {0}
  /\ RotateLines \in Nat \ {0} /\ RetentionDays \in Nat \ {0}
  /\ MaxDay \in Nat /\ MaxPart \in Nat \ {0} /\ MaxStarts \in Nat \ {0}
  /\ {Crashes, TornWrites, DiskErrors} \subseteq BOOLEAN
  /\ Torn # Bad /\ {Torn, Bad} \cap Records = {}

VARIABLES today,      \* the current day
          starts,     \* how often the process has started
          stage,      \* how far each record has come
          day,        \* FinishedAt of each record
          counts,     \* memory.totals
          queue,      \* queue, in order
          closing,    \* the queue is closed
          pc,         \* where the worker is
          flush,      \* the flush under way: a full batch, a tick, or the last one
          batch,      \* batch
          path,       \* currentPath, or NoPath when file == nil
          line,       \* currentLine
          curDay,     \* currentDay, or NoDay
          part,       \* currentPart
          buffered,   \* what writer has not handed to the file
          broken,     \* writer has met an error: bufio keeps it for ever
          cursor,     \* lastRecordRef
          files,      \* the record files; a missing one is empty
          modified,   \* the day each file was last written
          snap,       \* latest.json
          synced,     \* history: the records some flushWriter reported as written
          faulty      \* history: some open or write of a record file has failed

memVars == <<counts, queue, closing, batch>>
fileVars == <<path, line, curDay, part, buffered, broken>>
diskVars == <<files, modified, snap, synced, faulty>>
vars == <<today, starts, stage, day, memVars, pc, flush, fileVars, cursor, diskVars>>

Days == 0..MaxDay
Paths == Days \X (1..MaxPart)
NoPath == <<0, 0>>              \* below every path, as "" is
NoDay == -1
NoCursor == [path |-> NoPath, line |-> 0]
Uncounted == [r \in Records |-> 0]
NoSnapshot == [state |-> "none", counts |-> Uncounted, cursor |-> NoCursor]
CorruptSnapshot == [NoSnapshot EXCEPT !.state = "corrupt"]

(* sort.Strings on the file names.                                         *)
Before(p, q) == p[1] < q[1] \/ (p[1] = q[1] /\ p[2] < q[2])

TypeOK ==
  /\ today \in Days /\ starts \in 0..MaxStarts
  /\ stage \in [Records -> {"new", "finished", "counted", "queued", "dropped", "gone"}]
  /\ day \in [Records -> Days]
  /\ counts \in [Records -> Nat]
  /\ queue \in Seq(Records) /\ Len(queue) <= QueueSize
  /\ closing \in BOOLEAN /\ broken \in BOOLEAN
  /\ flush \in {"batch", "tick", "last"}
  /\ pc \in {"down", "select", "append", "sync", "snapshot", "writing", "cleanup", "closed"}
  /\ batch \in Seq(Records) /\ Len(batch) <= WriteBufferRecords
  /\ path \in Paths \cup {NoPath} /\ line \in Nat
  /\ curDay \in Days \cup {NoDay} /\ part \in 0..MaxPart
  /\ buffered \in Seq(Records)
  /\ path = NoPath => buffered = << >>
  /\ cursor \in [path : Paths \cup {NoPath}, line : Nat]
  /\ files \in [Paths -> Seq(Records \cup {Torn, Bad})]
  /\ modified \in [Paths -> Days]
  /\ snap \in [state : {"none", "corrupt", "ok"}, counts : [Records -> Nat],
               cursor : [path : Paths \cup {NoPath}, line : Nat]]
  /\ synced \subseteq Records /\ faulty \in BOOLEAN

Running == pc # "down"

-----------------------------------------------------------------------------
(* Lines that reach a file open for append: the first one continues a torn *)
(* tail and makes a line that is no longer JSON.                           *)
Extended(old, new) ==
  IF old # << >> /\ old[Len(old)] = Torn
    THEN SubSeq(old, 1, Len(old) - 1) \o <<IF Head(new) = Torn THEN Torn ELSE Bad>> \o Tail(new)
    ELSE old \o new

Write(lines) ==
  IF lines = << >>
    THEN UNCHANGED <<files, modified>>
    ELSE /\ files' = [files EXCEPT ![path] = Extended(@, lines)]
         /\ modified' = [modified EXCEPT ![path] = today]

(* What may reach the file when the process dies or a write fails: some of *)
(* the buffered lines, in order, and perhaps part of the next one.         *)
Prefixes(lines) ==
  { SubSeq(lines, 1, n) : n \in 0..Len(lines) }
  \cup (IF TornWrites THEN { SubSeq(lines, 1, n) \o <<Torn>> : n \in 0..(Len(lines) - 1) } ELSE {})

(* flushWriter: bufio.Writer.Flush, which repeats an earlier error, and    *)
(* File.Sync.                                                              *)
Flush ==
  IF path = NoPath \/ broken
    THEN UNCHANGED <<files, modified, synced>>
    ELSE /\ Write(buffered)
         /\ synced' = synced \cup {buffered[i] : i \in 1..Len(buffered)}

(* The lines of the record files: <<path, number>>.                        *)
Lines == UNION { {p} \X (1..Len(files[p])) : p \in Paths }
At(x) == files[x[1]][x[2]]

(* Mutant: the replay starts one line late.                                *)
ReplayedLate(c) ==
  { x \in Lines :
      /\ At(x) \in Records
      /\ ~Before(x[1], c.path)
      /\ x[1] = c.path => x[2] > c.line + 1 }

(* replayRecords: the lines that hold a record and lie after the cursor.   *)
Replayed(c) ==
  { x \in Lines :
      /\ At(x) \in Records
      /\ ~Before(x[1], c.path)
      /\ x[1] = c.path => x[2] > c.line }

(* lastRecordRef once the lines of R have been replayed in order.          *)
LastOf(R, c) ==
  IF R = {} THEN c
  ELSE LET last == CHOOSE x \in R : \A y \in R :
                     Before(y[1], x[1]) \/ (y[1] = x[1] /\ y[2] <= x[2])
       IN  [path |-> last[1], line |-> last[2]]

-----------------------------------------------------------------------------
Init ==
  /\ today = 0 /\ starts = 0
  /\ stage = [r \in Records |-> "new"]
  /\ day = [r \in Records |-> 0]
  /\ counts = Uncounted
  /\ queue = << >> /\ closing = FALSE /\ batch = << >>
  /\ pc = "down" /\ flush = "batch"
  /\ path = NoPath /\ line = 0 /\ curDay = NoDay /\ part = 0
  /\ buffered = << >> /\ broken = FALSE
  /\ cursor = NoCursor
  /\ files = [p \in Paths |-> << >>]
  /\ modified = [p \in Paths |-> 0]
  /\ snap = NoSnapshot
  /\ synced = {} /\ faulty = FALSE

(* Mutant: recover replays the files and leaves the snapshot alone.        *)
StartFromFiles ==
  /\ pc = "down"
  /\ starts < MaxStarts
  /\ starts' = starts + 1
  /\ LET R == Replayed(NoCursor)
     IN  /\ counts' = [r \in Records |-> Cardinality({x \in R : At(x) = r})]
         /\ cursor' = LastOf(R, NoCursor)
  /\ pc' = "select"
  /\ closing' = FALSE
  /\ UNCHANGED <<today, stage, day, queue, batch, flush, fileVars, diskVars>>

(* NewLocalFileStore: recover, then the worker.  A latest.json that does   *)
(* not parse is ignored, and every file is replayed.                       *)
Start ==
  /\ pc = "down"
  /\ starts < MaxStarts
  /\ starts' = starts + 1
  /\ LET base == IF snap.state = "ok" THEN snap ELSE NoSnapshot
         R == Replayed(base.cursor)
     IN  /\ counts' = [r \in Records |->
                         base.counts[r] + Cardinality({x \in R : At(x) = r})]
         /\ cursor' = LastOf(R, base.cursor)
  /\ pc' = "select"
  /\ closing' = FALSE
  /\ UNCHANGED <<today, stage, day, queue, batch, flush, fileVars, diskVars>>

(* finalizeUsageRecord stamps the record with the time it finished.        *)
Finish(r) ==
  /\ Running
  /\ closing => Crashes
  /\ stage[r] = "new"
  /\ stage' = [stage EXCEPT ![r] = "finished"]
  /\ day' = [day EXCEPT ![r] = today]
  /\ UNCHANGED <<today, starts, memVars, pc, flush, fileVars, cursor, diskVars>>

(* Record, first half: memory.Record, which waits while writeSnapshot      *)
(* holds memory.mu.                                                        *)
Count(r) ==
  /\ Running
  /\ stage[r] = "finished"
  /\ pc # "writing"
  /\ stage' = [stage EXCEPT ![r] = "counted"]
  /\ counts' = [counts EXCEPT ![r] = @ + 1]
  /\ UNCHANGED <<today, starts, day, queue, closing, batch, pc, flush, fileVars, cursor, diskVars>>

(* Record, second half: the send that drops the record when the queue is   *)
(* full.                                                                   *)
Enqueue(r) ==
  /\ Running
  /\ ~closing
  /\ stage[r] = "counted"
  /\ IF Len(queue) < QueueSize
       THEN /\ queue' = Append(queue, r)
            /\ stage' = [stage EXCEPT ![r] = "queued"]
       ELSE /\ stage' = [stage EXCEPT ![r] = "dropped"]
            /\ UNCHANGED queue
  /\ UNCHANGED <<today, starts, day, counts, closing, batch, pc, flush, fileVars, cursor, diskVars>>

-----------------------------------------------------------------------------
(* run: the three cases of the select.                                     *)
Receive ==
  /\ pc = "select"
  /\ queue # << >>
  /\ batch' = Append(batch, Head(queue))
  /\ queue' = Tail(queue)
  /\ pc' = IF Len(batch) + 1 >= WriteBufferRecords THEN "append" ELSE "select"
  /\ flush' = "batch"
  /\ UNCHANGED <<today, starts, stage, day, counts, closing, fileVars, cursor, diskVars>>

(* Mutant: a tick only takes a snapshot when nothing waits in the batch.   *)
FlushTickWhenIdle ==
  /\ pc = "select"
  /\ batch = << >>
  /\ pc' = "append"
  /\ flush' = "tick"
  /\ UNCHANGED <<today, starts, stage, day, memVars, fileVars, cursor, diskVars>>

FlushTick ==
  /\ pc = "select"
  /\ pc' = "append"
  /\ flush' = "tick"
  /\ UNCHANGED <<today, starts, stage, day, memVars, fileVars, cursor, diskVars>>

QueueClosed ==
  /\ pc = "select"
  /\ closing
  /\ queue = << >>
  /\ pc' = "append"
  /\ flush' = "last"
  /\ UNCHANGED <<today, starts, stage, day, memVars, fileVars, cursor, diskVars>>

-----------------------------------------------------------------------------
(* rotateIfNeeded                                                          *)
Size == IF path = NoPath THEN 0 ELSE Len(files[path]) + Len(buffered)
MustRotate(r) == path = NoPath \/ curDay # day[r] \/ Size >= RotateLines
NextPart(r) == IF curDay # day[r] THEN 1 ELSE part + 1

(* appendRecord into the file that is open.                                *)
AppendHere ==
  /\ pc = "append"
  /\ batch # << >>
  /\ ~MustRotate(Head(batch))
  /\ ~broken
  /\ buffered' = Append(buffered, Head(batch))
  /\ line' = line + 1
  /\ cursor' = [path |-> path, line |-> line + 1]
  /\ batch' = Tail(batch)
  /\ UNCHANGED <<today, starts, stage, day, counts, queue, closing, pc, flush,
                 path, curDay, part, broken, diskVars>>

(* appendRecord after openWriter, which flushes and closes the file before *)
(* it.  The line count starts again only when the file is empty.           *)
AppendElsewhere ==
  /\ pc = "append"
  /\ batch # << >>
  /\ MustRotate(Head(batch))
  /\ ~broken
  /\ LET r == Head(batch)
         p == <<day[r], NextPart(r)>>
     IN  /\ NextPart(r) <= MaxPart
         /\ Flush
         /\ path' = p
         /\ part' = NextPart(r)
         /\ curDay' = day[r]
         /\ line' = IF files[p] = << >> THEN 1 ELSE line + 1
         /\ cursor' = [path |-> p, line |-> line']
         /\ buffered' = <<r>>
  /\ batch' = Tail(batch)
  /\ UNCHANGED <<today, starts, stage, day, counts, queue, closing, pc, flush, broken, snap, faulty>>

(* An error of appendRecord ends the loop, and the rest of the batch is    *)
(* discarded.  After a failed open there is no file and the next record    *)
(* tries the next part; after a failed write the writer returns its error  *)
(* for ever, so nothing is written and no file is opened any more.         *)
OpenFails ==
  /\ DiskErrors
  /\ pc = "append"
  /\ batch # << >>
  /\ MustRotate(Head(batch))
  /\ ~broken
  /\ NextPart(Head(batch)) <= MaxPart
  /\ Flush
  /\ path' = NoPath
  /\ part' = NextPart(Head(batch))
  /\ buffered' = << >>
  /\ batch' = << >>
  /\ pc' = "sync"
  /\ UNCHANGED <<today, starts, stage, day, counts, queue, closing, flush, line, curDay,
                 broken, cursor, snap>>
  /\ faulty' = TRUE

WriteFails ==
  /\ DiskErrors
  /\ pc = "append"
  /\ batch # << >>
  /\ path # NoPath
  /\ broken' = TRUE
  /\ \E lines \in IF broken THEN {<< >>} ELSE Prefixes(buffered) : Write(lines)
  /\ buffered' = << >>
  /\ batch' = << >>
  /\ pc' = "sync"
  /\ UNCHANGED <<today, starts, stage, day, counts, queue, closing, flush, path, line, curDay,
                 part, cursor, snap, synced>>
  /\ faulty' = TRUE

-----------------------------------------------------------------------------
(* Mutant: the buffer is written and kept.                                 *)
SyncBatchKeepsBuffer ==
  /\ (pc = "append" /\ batch = << >>) \/ pc = "sync"
  /\ Flush
  /\ pc' = IF flush = "batch" THEN "select" ELSE "snapshot"
  /\ UNCHANGED <<today, starts, stage, day, memVars, flush, fileVars, cursor, snap, faulty>>

(* The rest of flush: flushWriter, then, when forced, writeSnapshot, which *)
(* truncates latest.json before it fills it, and cleanupExpired.           *)
SyncBatch ==
  /\ (pc = "append" /\ batch = << >>) \/ pc = "sync"
  /\ Flush
  /\ buffered' = << >>
  /\ pc' = IF flush = "batch" THEN "select" ELSE "snapshot"
  /\ UNCHANGED <<today, starts, stage, day, memVars, flush, path, line, curDay, part, broken,
                 cursor, snap, faulty>>

(* flushWriter fails, and its error is ignored: the writer is broken, or   *)
(* everything is in the file and File.Sync has not said so.                *)
FlushFails ==
  /\ DiskErrors
  /\ (pc = "append" /\ batch = << >>) \/ pc = "sync"
  /\ path # NoPath /\ ~broken
  /\ \/ /\ buffered # << >> /\ broken' = TRUE
        /\ \E lines \in Prefixes(buffered) : Write(lines)
     \/ UNCHANGED broken /\ Write(buffered)
  /\ buffered' = << >>
  /\ pc' = IF flush = "batch" THEN "select" ELSE "snapshot"
  /\ UNCHANGED <<today, starts, stage, day, memVars, flush, path, line, curDay, part,
                 cursor, snap, synced>>
  /\ faulty' = TRUE

TruncateSnapshot ==
  /\ pc = "snapshot"
  /\ snap' = CorruptSnapshot
  /\ pc' = "writing"
  /\ UNCHANGED <<today, starts, stage, day, memVars, flush, fileVars, cursor, files, modified, synced, faulty>>

FillSnapshot ==
  /\ pc = "writing"
  /\ snap' = [state |-> "ok", counts |-> counts, cursor |-> cursor]
  /\ pc' = "cleanup"
  /\ UNCHANGED <<today, starts, stage, day, memVars, flush, fileVars, cursor, files, modified, synced, faulty>>

(* The error of writeSnapshot is ignored.                                  *)
SnapshotFails ==
  /\ DiskErrors
  /\ pc \in {"snapshot", "writing"}
  /\ pc' = "cleanup"
  /\ UNCHANGED <<today, starts, stage, day, memVars, flush, fileVars, cursor, diskVars>>

(* The last flush is followed by closeWriter and the end of the worker.    *)
Cleanup ==
  /\ pc = "cleanup"
  /\ files' = [p \in Paths |->
                 IF modified[p] < today - RetentionDays /\ p # cursor.path THEN << >> ELSE files[p]]
  /\ IF flush = "last"
       THEN pc' = "closed" /\ path' = NoPath
       ELSE pc' = "select" /\ UNCHANGED path
  /\ UNCHANGED <<today, starts, stage, day, memVars, flush, line, curDay, part, buffered, broken,
                 cursor, modified, snap, synced, faulty>>

-----------------------------------------------------------------------------
(* Close closes the queue.  The server has waited for its handlers before; *)
(* when it gave up waiting, requests may still be running.                 *)
Close ==
  /\ Running
  /\ ~closing
  /\ Crashes \/ \A r \in Records : stage[r] \notin {"finished", "counted"}
  /\ closing' = TRUE
  /\ UNCHANGED <<today, starts, stage, day, counts, queue, batch, pc, flush, fileVars, cursor, diskVars>>

(* The end of the process: what was in memory is gone.                     *)
Die ==
  /\ stage' = [r \in Records |-> IF stage[r] \in {"finished", "counted"} THEN "gone" ELSE stage[r]]
  /\ counts' = Uncounted
  /\ queue' = << >> /\ closing' = FALSE /\ batch' = << >>
  /\ pc' = "down" /\ flush' = "batch"
  /\ path' = NoPath /\ line' = 0 /\ curDay' = NoDay /\ part' = 0
  /\ buffered' = << >> /\ broken' = FALSE
  /\ cursor' = NoCursor
  /\ UNCHANGED <<today, starts, day, snap, synced, faulty>>

Exit == pc = "closed" /\ Die /\ UNCHANGED <<files, modified>>

Crash ==
  /\ Crashes
  /\ Running
  /\ \E lines \in IF broken THEN {<< >>} ELSE Prefixes(buffered) : Write(lines)
  /\ Die

(* A request that is still running when the queue is closed: its send      *)
(* panics, and takes the process down.                                     *)
SendOnClosedQueue(r) ==
  /\ closing
  /\ stage[r] = "counted"
  /\ \E lines \in IF broken THEN {<< >>} ELSE Prefixes(buffered) : Write(lines)
  /\ Die

NextDay ==
  /\ today < MaxDay
  /\ today' = today + 1
  /\ UNCHANGED <<starts, stage, day, memVars, pc, flush, fileVars, cursor, diskVars>>

-----------------------------------------------------------------------------
Worker ==
  \/ Receive \/ FlushTick \/ QueueClosed
  \/ AppendHere \/ AppendElsewhere \/ OpenFails \/ WriteFails
  \/ SyncBatch \/ FlushFails \/ TruncateSnapshot \/ FillSnapshot \/ SnapshotFails \/ Cleanup

Request(r) == Finish(r) \/ Count(r) \/ Enqueue(r) \/ SendOnClosedQueue(r)

Next ==
  \/ Start \/ Worker \/ Close \/ Exit \/ Crash \/ NextDay
  \/ \E r \in Records : Request(r)

Spec == Init /\ [][Next]_vars

(* The worker goroutine runs, and Go's select, which picks at random among *)
(* its ready cases, does not pass over the queue for ever.                 *)
FairSpec == Spec /\ WF_vars(Worker) /\ SF_vars(Receive)

-----------------------------------------------------------------------------
(* As long as the files can be written, a record that flushWriter reported *)
(* as written and synced is counted by every process that runs later:      *)
(* recover finds it in the snapshot or after the cursor (local_file.go     *)
(* recover, replayRecords).                                                *)
DurableCounted == Running /\ ~faulty => \A r \in synced : counts[r] >= 1

(* A record that was counted once stays counted, across orderly restarts   *)
(* too, also when the queue was full and it never reached a file: the last *)
(* flush of run takes a snapshot of the totals.                            *)
RecordedStaysCounted ==
  Running => \A r \in Records : stage[r] \in {"counted", "queued", "dropped"} => counts[r] >= 1

(* The lines that hold r.                                                  *)
LinesOf(r) == { x \in Lines : At(x) = r }

(* Whatever fails (writes, opens, snapshots, the process), a record never  *)
(* gets into the files twice, and one that flushWriter reported as written *)
(* is there until it is older than the retention.                          *)
LoggedOnce ==
  \A r \in Records :
    /\ Cardinality(LinesOf(r)) <= 1
    /\ r \in synced /\ today - RetentionDays <= day[r] => LinesOf(r) # {}

(* No record is counted twice: what recover restores is what was recorded, *)
(* "want request_count=2" after two records.                               *)
CountedOnce == \A r \in Records : counts[r] <= 1

(* A record in the queue reaches a file, also when the store is closed.    *)
QueuedReachesDisk == \A r \in Records : stage[r] = "queued" ~> r \in synced
=============================================================================
