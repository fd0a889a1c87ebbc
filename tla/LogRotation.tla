----------------------------- MODULE LogRotation -----------------------------
(***************************************************************************)
(* internal/logging/rotate.go: the writer, which archives the current file *)
(* when it is full or a new day begins, and its worker, which compresses   *)
(* the archives and removes what is too old, too many or too large.  They  *)
(* share nothing but the directory and a wake-up channel of capacity one.  *)
(* A record is its number in the order they are written; its size is 1.    *)
(***************************************************************************)
EXTENDS Integers, Sequences, FiniteSets, Functions

CONSTANTS MaxSize,        \* max_size, in records
          MaxFiles, MaxTotalSize, MaxAge,   \* what is kept; 0 is no limit
          TicksPerDay,
          LastTick,       \* bound: the clock
          MaxRecords,     \* bound: records written
          MaxLogFaults    \* bound: failures of the file system, and crashes

VARIABLES logNow,
          current,     \* the records of the current file
          writer,      \* "open"; "nil" after a failed reopen; "closed"; "down"
          openDate, sequence,
          archives,    \* the archive files: [stamp, seq, gz, records, mtime]
          wake,        \* the channel
          worker,      \* [at, todo]: todo are the archives still to compress
          lastRecord,  \* records handed to Write
          acked,       \* history: those Write took
          cleaned,     \* history: those cleanup removed
          logFaults

logVars == <<logNow, current, writer, openDate, sequence, archives, wake, worker,
             lastRecord, acked, cleaned, logFaults>>

Date(t) == t \div TicksPerDay
Nap == [at |-> "select", todo |-> << >>]

LogInit ==
  /\ logNow = 0 /\ current = << >> /\ writer = "open" /\ openDate = 0 /\ sequence = 0
  /\ archives = {} /\ wake = TRUE /\ worker = Nap
  /\ lastRecord = 0 /\ acked = {} /\ cleaned = {} /\ logFaults = 0

LogTick ==
  /\ logNow < LastTick /\ logNow' = logNow + 1
  /\ UNCHANGED <<current, writer, openDate, sequence, archives, wake, worker,
                 lastRecord, acked, cleaned, logFaults>>

LogFault == logFaults < MaxLogFaults /\ logFaults' = logFaults + 1

-----------------------------------------------------------------------------
(* The order of DiscoverArchives: newest first, a compressed copy first. *)
Newer(a, b) ==
  \/ a.stamp > b.stamp
  \/ a.stamp = b.stamp /\ a.seq > b.seq
  \/ a.stamp = b.stamp /\ a.seq = b.seq /\ a.gz /\ ~b.gz

Before(as, a) == {b \in as : Newer(b, a)}
DiscoverArchives(as) ==
  [i \in 1 .. Cardinality(as) |-> CHOOSE a \in as : Cardinality(Before(as, a)) = i - 1]

(* Mutant: the sequence starts over at every archive. *)
nextSequenceRestarts(t) == 1

(* nextArchiveName: the next number whose file is not there. *)
nextSequence(t) ==
  CHOOSE n \in sequence + 1 .. sequence + 1 + Cardinality(archives) :
    /\ ~\E a \in archives : a.stamp = t /\ a.seq = n /\ ~a.gz
    /\ \A m \in sequence + 1 .. n - 1 : \E a \in archives : a.stamp = t /\ a.seq = m /\ ~a.gz

(* The rename takes the place of a file of that name. *)
Archived(t) ==
  LET a == [stamp |-> t, seq |-> nextSequence(t), gz |-> FALSE, records |-> current, mtime |-> t]
  IN  {x \in archives : ~(x.stamp = a.stamp /\ x.seq = a.seq /\ ~x.gz)} \cup {a}

MustRotate == (current # << >> /\ Len(current) + 1 > MaxSize) \/ Date(logNow) # openDate

Take(r) == lastRecord' = r /\ acked' = acked \cup {r}

(* Write into the current file. *)
WriteRecord ==
  /\ writer = "open" /\ ~MustRotate /\ lastRecord < MaxRecords
  /\ Take(lastRecord + 1) /\ current' = Append(current, lastRecord + 1)
  /\ UNCHANGED <<logNow, writer, openDate, sequence, archives, wake, worker, cleaned, logFaults>>

(* Write that archives the file first, and wakes the worker. *)
RotateAndWrite ==
  /\ writer = "open" /\ MustRotate /\ lastRecord < MaxRecords
  /\ archives' = Archived(logNow) /\ sequence' = nextSequence(logNow)
  /\ openDate' = Date(logNow) /\ wake' = TRUE
  /\ Take(lastRecord + 1) /\ current' = <<lastRecord + 1>>
  /\ UNCHANGED <<logNow, writer, worker, cleaned, logFaults>>

(* The rename fails: the file is opened again and the record refused. *)
RotateFails ==
  /\ writer = "open" /\ MustRotate /\ lastRecord < MaxRecords /\ LogFault
  /\ lastRecord' = lastRecord + 1 /\ sequence' = nextSequence(logNow)
  /\ openDate' = Date(logNow)
  /\ UNCHANGED <<logNow, current, writer, archives, wake, worker, acked, cleaned>>

(* The new file cannot be opened: nothing opens one again. *)
ReopenFails ==
  /\ writer = "open" /\ MustRotate /\ lastRecord < MaxRecords /\ LogFault
  /\ archives' = Archived(logNow) /\ sequence' = nextSequence(logNow)
  /\ lastRecord' = lastRecord + 1 /\ writer' = "nil" /\ current' = << >>
  /\ UNCHANGED <<logNow, openDate, wake, worker, acked, cleaned>>

WriteRefused ==
  /\ writer \in {"nil", "closed"} /\ lastRecord < MaxRecords
  /\ lastRecord' = lastRecord + 1
  /\ UNCHANGED <<logNow, current, writer, openDate, sequence, archives, wake, worker,
                 acked, cleaned, logFaults>>

CloseWriter ==
  /\ writer \in {"open", "nil"} /\ writer' = "closed"
  /\ UNCHANGED <<logNow, current, openDate, sequence, archives, wake, worker,
                 lastRecord, acked, cleaned, logFaults>>

-----------------------------------------------------------------------------
Uncompressed == DiscoverArchives({a \in archives : ~a.gz})

(* The worker takes the signal and looks at the archives there are. *)
WakeUp ==
  /\ worker.at = "select" /\ wake /\ wake' = FALSE
  /\ worker' = [at |-> "gzip", todo |-> Uncompressed]
  /\ UNCHANGED <<logNow, current, writer, openDate, sequence, archives,
                 lastRecord, acked, cleaned, logFaults>>

(* Close has stopped it: once more, and it ends. *)
LastRound ==
  /\ worker.at = "select" /\ writer = "closed"
  /\ worker' = [at |-> "gzipLast", todo |-> Uncompressed]
  /\ UNCHANGED <<logNow, current, writer, openDate, sequence, archives, wake,
                 lastRecord, acked, cleaned, logFaults>>

Compressing == worker.at \in {"gzip", "gzipLast"} /\ worker.todo # << >>
Gz(a) == [a EXCEPT !.gz = TRUE, !.mtime = logNow]
SameName(a, b) == a.stamp = b.stamp /\ a.seq = b.seq

(* gzipArchive publishes the compressed file under its own name ... *)
PublishGzip ==
  /\ Compressing
  /\ LET a == Head(worker.todo)
     IN  archives' = {x \in archives : ~(SameName(x, a) /\ x.gz)} \cup {Gz(a)}
  /\ worker' = [worker EXCEPT !.at = IF @ = "gzip" THEN "remove" ELSE "removeLast"]
  /\ UNCHANGED <<logNow, current, writer, openDate, sequence, wake,
                 lastRecord, acked, cleaned, logFaults>>

Next1 == [at |-> IF worker.at \in {"gzip", "remove"} THEN "gzip" ELSE "gzipLast",
          todo |-> Tail(worker.todo)]

(* ... or fails before that, which leaves the archive as it is. *)
GzipFails ==
  /\ Compressing /\ LogFault /\ worker' = Next1
  /\ UNCHANGED <<logNow, current, writer, openDate, sequence, archives, wake,
                 lastRecord, acked, cleaned>>

(* Then it removes the archive, or, when it cannot, the compressed file. *)
RemoveSource ==
  /\ worker.at \in {"remove", "removeLast"}
  /\ LET a == Head(worker.todo)
     IN  \/ archives' = archives \ {a} /\ UNCHANGED logFaults
         \/ archives' = {x \in archives : ~(SameName(x, a) /\ x.gz)} /\ LogFault
  /\ worker' = Next1
  /\ UNCHANGED <<logNow, current, writer, openDate, sequence, wake, lastRecord, acked, cleaned>>

(* cleanup: by age, then the newest MaxFiles, then as many of those as fit *)
(* beside the current file, the oldest going first.                        *)
Retained ==
  LET young == {a \in archives : MaxAge = 0 \/ logNow - a.mtime <= MaxAge}
      few   == {a \in young : MaxFiles = 0 \/ Cardinality(Before(young, a)) < MaxFiles}
      total(a) == Len(current) + Cardinality(UNION {{b} \X DOMAIN b.records : b \in {a} \cup Before(few, a)})
  IN  {a \in few : MaxTotalSize = 0 \/ total(a) <= MaxTotalSize}

Records(as) == UNION {Range(a.records) : a \in as}

(* Mutant: a signal that comes during the work is taken with it. *)
CleanupTakesSignal ==
  /\ worker.at \in {"gzip", "gzipLast"} /\ worker.todo = << >>
  /\ archives' = Retained
  /\ cleaned' = cleaned \cup (Records(archives) \ Records(archives'))
  /\ worker' = IF worker.at = "gzip" THEN Nap ELSE [Nap EXCEPT !.at = "ended"]
  /\ wake' = FALSE
  /\ UNCHANGED <<logNow, current, writer, openDate, sequence, lastRecord, acked, logFaults>>

Cleanup ==
  /\ worker.at \in {"gzip", "gzipLast"} /\ worker.todo = << >>
  /\ archives' = Retained
  /\ cleaned' = cleaned \cup (Records(archives) \ Records(archives'))
  /\ worker' = IF worker.at = "gzip" THEN Nap ELSE [Nap EXCEPT !.at = "ended"]
  /\ UNCHANGED <<logNow, current, writer, openDate, sequence, wake, lastRecord, acked, logFaults>>

(* The process dies, wherever the worker is, and is started again later. *)
LogCrash ==
  /\ writer # "down" /\ LogFault /\ writer' = "down" /\ worker' = Nap /\ wake' = FALSE
  /\ UNCHANGED <<logNow, current, openDate, sequence, archives, lastRecord, acked, cleaned>>

NewRotatingWriter ==
  /\ (writer = "closed" /\ worker.at = "ended") \/ writer = "down"
  /\ logNow < LastTick /\ logNow' = logNow + 1
  /\ writer' = "open" /\ openDate' = Date(logNow') /\ sequence' = 0
  /\ wake' = TRUE /\ worker' = Nap
  /\ UNCHANGED <<current, archives, lastRecord, acked, cleaned, logFaults>>

WorkerStep == WakeUp \/ LastRound \/ PublishGzip \/ GzipFails \/ RemoveSource \/ Cleanup

LogNext ==
  \/ LogTick \/ WriteRecord \/ RotateAndWrite \/ RotateFails \/ ReopenFails \/ WriteRefused
  \/ CloseWriter \/ WorkerStep \/ LogCrash \/ NewRotatingWriter

LogSpec == LogInit /\ [][LogNext]_logVars

-----------------------------------------------------------------------------
(* A record that Write took is in the current file or an archive until     *)
(* cleanup removes it, whatever fails and wherever the process dies        *)
(* (rotate.go rotate, nextArchiveName, gzipArchive).                       *)
LogIsWhole == acked \subseteq Range(current) \cup Records(archives) \cup cleaned

(* From the oldest archive to the current file the records are in the      *)
(* order they were written, across restarts, so that a reader may follow   *)
(* the names (rotate.go DiscoverArchives).                                 *)
LogInOrder ==
  /\ \A a \in archives : \A r \in Range(a.records), c \in Range(current) : r < c
  /\ \A a, b \in archives : ~SameName(a, b) /\ Newer(a, b) =>
       \A r \in Range(a.records), s \in Range(b.records) : s < r

(* An archive is compressed or removed in the end, though signals are      *)
(* dropped while one is pending and archives are made while the worker is  *)
(* busy, unless the file system fails or the process dies (rotate.go       *)
(* signalWorker, worker, processArchives).                                 *)
CompressedInTheEnd == (\E a \in archives : ~a.gz) ~> ((\A a \in archives : a.gz) \/ logFaults > 0)
(* Every record taken is kept once and in order until cleanup removes it,  *)
(* through rotations, failures and restarts.                               *)
LogIsKept == LogIsWhole /\ LogInOrder
=============================================================================
