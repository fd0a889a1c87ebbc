---------------------------- MODULE StorageProofs ----------------------------
(***************************************************************************)
(* What is proved about the files the gateway keeps beside the usage log,  *)
(* and about the buffer kept beside its logs: while no two saves overlap,  *)
(* a crash leaves the quota snapshot whole; the rotated logs lose nothing  *)
(* and stay in order; and the recent buffer has all of what it says it     *)
(* covers.                                                                 *)
(***************************************************************************)
EXTENDS QuotaSnapshots, LogRotation, RecentLog, FiniteSetTheorems, WellFoundedInduction, TLAPS

(* Zenon finds the proof of a leaf that does not name a prover.            *)
USE Zenon

SaverAts == {"off", "idle", "exported", "open", "written"}

SnapshotTypes ==
  /\ trackers \in Nat /\ lastSaved \in Nat
  /\ tmp \in Inodes \cup {NoFile} /\ latestFile \in Inodes \cup {NoFile}
  /\ content \in [Inodes -> Nat \cup {-1}]
  /\ saver \in [Savers -> [at : SaverAts, state : Nat, inode : Inodes \cup {NoFile}]]

(* One saver at a time has the temporary file, and what it holds is what   *)
(* that saver has written so far; latest.json is another file.             *)
OneSave ==
  /\ \A s, t \in Savers : Saving(s) /\ Saving(t) => s = t
  /\ tmp = NoFile \/ tmp # latestFile
  /\ \A s \in Savers :
       /\ saver[s].at \in {"off", "idle", "exported"} => saver[s].inode = NoFile
       /\ saver[s].at \in {"open", "written"} => saver[s].inode = tmp /\ tmp \in Inodes
       /\ saver[s].at = "open" => content[tmp] = -1
       /\ saver[s].at = "written" => content[tmp] = saver[s].state

SnapshotInv == ~overlapped => SnapshotTypes /\ OneSave /\ SavesAreAtomic

(* A name is free when a save makes the temporary file: only latest.json   *)
(* is in use (Save).                                                       *)
LEMMA FreeInode ==
  ASSUME SnapshotTypes, OneSave, NEW s \in Savers, saver[s].at = "exported", tmp = NoFile
  PROVE  \E f \in Inodes : f \in Free
<1>1. \A t \in Savers : saver[t].inode = NoFile
  BY SnapshotsAssumption DEF SnapshotTypes, OneSave, SaverAts
<1>2. SUFFICES ASSUME Free = {} PROVE FALSE
  BY DEF Free
<1>3. Inodes \subseteq {latestFile}
  BY <1>1, <1>2, SnapshotsAssumption DEF Free
<1>4. IsFiniteSet({latestFile}) /\ Cardinality({latestFile}) = 1
  BY FS_Singleton
<1>5. Cardinality(Inodes) <= Cardinality({latestFile})
  BY <1>3, <1>4, FS_Subset
<1>6. Cardinality(Inodes) \in Nat
  BY SnapshotsAssumption, FS_CardinalityType
<1> QED BY SMT, <1>4, <1>5, <1>6, SnapshotsAssumption

(* Every step keeps it: an export overlaps no other save, or ends the      *)
(* claim.                                                                  *)
LEMMA SnapshotStep == SnapshotInv /\ [SnapshotsNext]_snapshotVars => SnapshotInv'
<1> SUFFICES ASSUME SnapshotInv, [SnapshotsNext]_snapshotVars, ~overlapped'
             PROVE (SnapshotTypes /\ OneSave /\ SavesAreAtomic)'
  BY DEF SnapshotInv
<1>a. ~overlapped
  BY DEF SnapshotsNext, snapshotVars, UseQuota, StartNewStore, Close, CrashProcess, StartProcess,
         Export, OpenTmp, WriteTmp, Rename
<1>b. SnapshotTypes /\ OneSave /\ SavesAreAtomic
  BY <1>a DEF SnapshotInv
<1>c. /\ process # "refused"
      /\ latestFile # NoFile => content[latestFile] = lastSaved
  BY <1>a, <1>b DEF SavesAreAtomic
<1> USE SnapshotsAssumption
<1>1. CASE UseQuota
  BY SMT, <1>1, <1>b, <1>c DEF UseQuota, SnapshotTypes, OneSave, SavesAreAtomic, Saving
<1>2. CASE StartNewStore
  BY <1>2, <1>b, <1>c DEF StartNewStore, SnapshotTypes, OneSave, SavesAreAtomic, Saving, Savers, SaverIdle, Off, SaverAts
<1>3. ASSUME NEW s \in {"ticker", "newTicker"}, Close(s)
      PROVE  (SnapshotTypes /\ OneSave /\ SavesAreAtomic)'
  BY <1>3, <1>b, <1>c DEF Close, SnapshotTypes, OneSave, SavesAreAtomic, Saving, Savers, SaverIdle, Off, SaverAts
<1>4. CASE CrashProcess
  BY <1>4, <1>b, <1>c DEF CrashProcess, SnapshotTypes, OneSave, SavesAreAtomic, Saving, Savers, Off, SaverAts
<1>5. CASE StartProcess
  BY SMT, <1>5, <1>b, <1>c DEF StartProcess, SnapshotTypes, OneSave, SavesAreAtomic, Saving, Savers, SaverIdle, Off, SaverAts
<1>6. ASSUME NEW s \in Savers, Export(s)
      PROVE  (SnapshotTypes /\ OneSave /\ SavesAreAtomic)'
  <2>1. \A o \in Savers : ~Saving(o)
    BY <1>6 DEF Export
  <2> QED BY <2>1, <1>6, <1>b, <1>c DEF Export, SnapshotTypes, OneSave, SavesAreAtomic, Saving, SaverAts
<1>7. ASSUME NEW s \in Savers, OpenTmp(s)
      PROVE  (SnapshotTypes /\ OneSave /\ SavesAreAtomic)'
  <2> DEFINE i == IF tmp = NoFile THEN CHOOSE f \in Free : TRUE ELSE tmp
  <2>1. i \in Inodes /\ i # latestFile
    <3>1. CASE tmp = NoFile
      BY <3>1, <1>7, <1>b, FreeInode DEF OpenTmp, Free
    <3>2. CASE tmp # NoFile
      BY <3>2, <1>b DEF SnapshotTypes, OneSave
    <3> QED BY <3>1, <3>2
  <2>2. /\ saver[s].at = "exported" /\ tmp' = i /\ content' = [content EXCEPT ![i] = -1]
        /\ saver' = [saver EXCEPT ![s].at = "open", ![s].inode = i]
        /\ UNCHANGED <<trackers, latestFile, lives, process, overlapped, lastSaved>>
    BY <1>7 DEF OpenTmp
  <2> HIDE DEF i
  <2>3. \A o \in Savers : o # s => ~Saving(o)
    BY <2>2, <1>b DEF OneSave, Saving
  <2> QED BY SMT, <2>1, <2>2, <2>3, <1>b, <1>c DEF SnapshotTypes, OneSave, SavesAreAtomic, Saving, SaverAts
<1>8. ASSUME NEW s \in Savers, WriteTmp(s)
      PROVE  (SnapshotTypes /\ OneSave /\ SavesAreAtomic)'
  <2>1. /\ saver[s].at = "open" /\ saver[s].inode = tmp /\ tmp \in Inodes /\ tmp # latestFile
        /\ content[tmp] = -1 /\ saver[s].state \in Nat
    BY <1>8, <1>b DEF WriteTmp, OneSave, SnapshotTypes
  <2>2. content' = [content EXCEPT ![tmp] = saver[s].state]
    BY <1>8, <2>1 DEF WriteTmp
  <2>3. \A o \in Savers : o # s => ~Saving(o)
    BY <2>1, <1>b DEF OneSave, Saving
  <2> QED BY SMT, <2>1, <2>2, <2>3, <1>8, <1>b, <1>c DEF WriteTmp, SnapshotTypes, OneSave, SavesAreAtomic, Saving, SaverAts
<1>9. ASSUME NEW s \in Savers, Rename(s)
      PROVE  (SnapshotTypes /\ OneSave /\ SavesAreAtomic)'
  <2>1. /\ saver[s].at = "written" /\ tmp \in Inodes /\ tmp # latestFile
        /\ content[tmp] = saver[s].state /\ saver[s].state \in Nat
    BY <1>9, <1>b DEF Rename, OneSave, SnapshotTypes
  <2>2. /\ latestFile' = tmp /\ tmp' = NoFile /\ lastSaved' = saver[s].state
        /\ content' = IF latestFile = NoFile THEN content ELSE [content EXCEPT ![latestFile] = -1]
    BY <1>9, <2>1 DEF Rename, Replace
  <2>3. content' \in [Inodes -> Nat \cup {-1}] /\ content'[tmp] = saver[s].state
    BY <2>1, <2>2, <1>b DEF SnapshotTypes
  <2>4. \A o \in Savers : o # s => ~Saving(o)
    BY <2>1, <1>b DEF OneSave, Saving
  <2>5. saver' = [saver EXCEPT ![s] = Done(s)] /\ UNCHANGED <<trackers, lives, process, overlapped>>
    BY <1>9 DEF Rename
  <2>6. Done(s) \in {[at |-> "off", state |-> 0, inode |-> NoFile], [at |-> "idle", state |-> 0, inode |-> NoFile]}
    BY DEF Done, Off, SaverIdle
  <2> QED BY SMT, <2>1, <2>2, <2>3, <2>4, <2>5, <2>6, <1>b, <1>c DEF SnapshotTypes, OneSave, SavesAreAtomic, Saving, SaverAts
<1>10. CASE UNCHANGED snapshotVars
  BY <1>10, <1>b, <1>c DEF snapshotVars, SnapshotTypes, OneSave, SavesAreAtomic, Saving
<1> QED BY <1>1, <1>2, <1>3, <1>4, <1>5, <1>6, <1>7, <1>8, <1>9, <1>10 DEF SnapshotsNext

(* For any number of inodes, changes and process lives: while no two saves *)
(* overlap, latest.json is the state of the last finished save whenever    *)
(* the process dies, and no start is refused (snapshot_store.go Save,      *)
(* Load).                                                                  *)
THEOREM SavesAreAtomicCorrect == SnapshotsSpec => []SavesAreAtomic
<1>1. SnapshotsInit => SnapshotInv
  BY SMT, SnapshotsAssumption DEF SnapshotsInit, SnapshotInv, SnapshotTypes, OneSave, SavesAreAtomic, Saving,
     Savers, SaverIdle, Off, SaverAts
<1>2. SnapshotInv => SavesAreAtomic
  BY DEF SnapshotInv, SavesAreAtomic
<1> QED BY <1>1, <1>2, SnapshotStep, PTL DEF SnapshotsSpec

-----------------------------------------------------------------------------
Archive == [stamp : Nat, seq : Nat, gz : BOOLEAN, records : Seq(Nat), mtime : Nat]
Busy == {"gzip", "gzipLast", "remove", "removeLast"}

LogTypes ==
  /\ logNow \in Nat /\ sequence \in Nat /\ lastRecord \in Nat
  /\ current \in Seq(Nat)
  /\ archives \subseteq Archive /\ IsFiniteSet(archives)
  /\ worker \in [at : Busy \cup {"select", "ended"}, todo : Seq(Archive)]

(* No archive has a name that is still to come; no two files have one      *)
(* name; files of one name but for the suffix are copies.                  *)
Fresh(S, t, n) == \A a \in S : a.stamp <= t /\ (a.stamp = t => a.seq <= n)
Distinct(S) == \A a, b \in S : SameName(a, b) /\ a.gz = b.gz => a = b
Copies(S) == \A a, b \in S : SameName(a, b) => a.records = b.records
Named == Fresh(archives, logNow, sequence) /\ Distinct(archives) /\ Copies(archives)

(* The records there are have been handed to Write. *)
UpTo ==
  /\ \A r \in Range(current) : r <= lastRecord
  /\ \A a \in archives : \A r \in Range(a.records) : r <= lastRecord

(* What the worker has still to compress is there, each archive once, and  *)
(* the one it is about to remove has its compressed copy.                  *)
Listed(todo, S) ==
  /\ \A i \in DOMAIN todo : todo[i] \in S /\ ~todo[i].gz
  /\ \A i, j \in DOMAIN todo : todo[i] = todo[j] => i = j
Work ==
  /\ worker.at \notin Busy => worker.todo = << >>
  /\ Listed(worker.todo, archives)
  /\ worker.at \in {"remove", "removeLast"} =>
       /\ worker.todo # << >>
       /\ \E b \in archives : SameName(b, Head(worker.todo)) /\ b.gz

LogInv == LogTypes /\ Named /\ UpTo /\ Work /\ LogIsKept

(* Newer is a strict total order on archives with different names          *)
(* (DiscoverArchives).                                                     *)
LEMMA NewerOrder ==
  ASSUME NEW S \in SUBSET Archive, Distinct(S)
  PROVE  /\ \A a \in S : ~Newer(a, a)
         /\ \A a, b, c \in S : Newer(a, b) /\ Newer(b, c) => Newer(a, c)
         /\ \A a, b \in S : a # b => Newer(a, b) \/ Newer(b, a)
<1>0. ASSUME NEW a \in S PROVE a.stamp \in Nat /\ a.seq \in Nat /\ a.gz \in BOOLEAN
  BY DEF Archive
<1>1. ASSUME NEW a \in S PROVE ~Newer(a, a)
  <2>1. a.stamp \in Nat /\ a.seq \in Nat
    BY <1>0
  <2> QED BY ONLY <2>1 DEF Newer
<1>2. ASSUME NEW a \in S, NEW b \in S, NEW c \in S, Newer(a, b), Newer(b, c) PROVE Newer(a, c)
  <2>1. /\ a.stamp \in Nat /\ a.seq \in Nat /\ a.gz \in BOOLEAN
        /\ b.stamp \in Nat /\ b.seq \in Nat /\ b.gz \in BOOLEAN
        /\ c.stamp \in Nat /\ c.seq \in Nat /\ c.gz \in BOOLEAN
    BY <1>0
  <2> QED BY ONLY <2>1, Newer(a, b), Newer(b, c) DEF Newer
<1>3. ASSUME NEW a \in S, NEW b \in S, a # b PROVE Newer(a, b) \/ Newer(b, a)
  <2>1. /\ a.stamp \in Nat /\ a.seq \in Nat /\ a.gz \in BOOLEAN
        /\ b.stamp \in Nat /\ b.seq \in Nat /\ b.gz \in BOOLEAN
    BY <1>0
  <2>2. ~(a.stamp = b.stamp /\ a.seq = b.seq /\ a.gz = b.gz)
    BY <1>3 DEF SameName, Distinct
  <2> QED BY ONLY <2>1, <2>2 DEF Newer
<1> QED BY <1>1, <1>2, <1>3

(* DiscoverArchives lists every archive once.                              *)
LEMMA DiscoverLists ==
  ASSUME NEW S \in SUBSET Archive, IsFiniteSet(S), Distinct(S)
  PROVE  /\ DiscoverArchives(S) \in Seq(S)
         /\ \A i, j \in DOMAIN DiscoverArchives(S) :
              DiscoverArchives(S)[i] = DiscoverArchives(S)[j] => i = j
<1> DEFINE n == Cardinality(S)
           rank(a) == Cardinality(Before(S, a))
           f == [a \in S |-> rank(a)]
<1>1. n \in Nat
  BY FS_CardinalityType
<1>2. \A a \in S : IsFiniteSet(Before(S, a)) /\ rank(a) \in 0 .. n - 1
  <2> TAKE a \in S
  <2>1. Before(S, a) \subseteq S /\ a \notin Before(S, a)
    BY NewerOrder DEF Before
  <2>2. Before(S, a) # S
    BY <2>1
  <2>3. IsFiniteSet(Before(S, a)) /\ rank(a) <= n /\ (rank(a) = n => Before(S, a) = S)
    BY <2>1, FS_Subset
  <2>4. rank(a) \in Nat
    BY <2>3, FS_CardinalityType
  <2> QED BY SMT, <2>2, <2>3, <2>4, <1>1
<1>3. \A a, b \in S : Newer(a, b) => rank(a) # rank(b)
  <2> SUFFICES ASSUME NEW a \in S, NEW b \in S, Newer(a, b) PROVE rank(a) # rank(b)
    OBVIOUS
  <2>1. Before(S, a) \subseteq Before(S, b)
    BY NewerOrder DEF Before
  <2>2. a \in Before(S, b) /\ a \notin Before(S, a)
    BY NewerOrder DEF Before
  <2>3. rank(a) = rank(b) => Before(S, a) = Before(S, b)
    BY <2>1, <1>2, FS_Subset
  <2> QED BY <2>2, <2>3
<1>4. \A a, b \in S : rank(a) = rank(b) => a = b
  BY <1>3, NewerOrder
<1> HIDE DEF rank
<1>5. \A k \in 0 .. n - 1 : \E a \in S : rank(a) = k
  <2> DEFINE img == {rank(a) : a \in S}
  <2>1. f \in Injection(S, img)
    BY <1>4 DEF Injection, IsInjective
  <2>1a. f \in Surjection(S, img)
    BY DEF Surjection
  <2>2. IsFiniteSet(img) /\ Cardinality(img) <= n
    BY <2>1a, FS_Surjection
  <2>3. n <= Cardinality(img)
    BY <2>1, <2>2, FS_Injection
  <2>4. IsFiniteSet(0 .. n - 1) /\ Cardinality(0 .. n - 1) = n
    <3> DEFINE m == n - 1
    <3>0. m \in Int /\ 0 \in Int
      BY ONLY <1>1
    <3> HIDE DEF m
    <3>1. IsFiniteSet(0 .. m) /\ Cardinality(0 .. m) = IF 0 > m THEN 0 ELSE m - 0 + 1
      BY ONLY <3>0, FS_Interval
    <3> USE DEF m
    <3> QED BY ONLY <3>1, <1>1
  <2>5. img \subseteq 0 .. n - 1
    BY <1>2
  <2>6. Cardinality(img) = n
    BY SMT, <2>2, <2>3, <1>1, FS_CardinalityType
  <2>7. img = 0 .. n - 1
    BY <2>4, <2>5, <2>6, FS_Subset
  <2> QED BY <2>7
<1> DEFINE d == DiscoverArchives(S)
<1>6. d = [i \in 1 .. n |-> CHOOSE a \in S : rank(a) = i - 1]
  BY DEF DiscoverArchives, rank
<1>7. \A i \in 1 .. n : d[i] \in S /\ rank(d[i]) = i - 1
  <2> TAKE i \in 1 .. n
  <2>1. \E a \in S : rank(a) = i - 1
    BY SMT, <1>1, <1>5
  <2> QED BY <2>1, <1>6
<1> HIDE DEF d
<1>8. d \in Seq(S)
  BY SMT, <1>1, <1>6, <1>7
<1>9. \A i, j \in DOMAIN d : d[i] = d[j] => i = j
  <2>1. DOMAIN d = 1 .. n
    BY <1>6
  <2>2. \A i, j \in 1 .. n : d[i] = d[j] => i - 1 = j - 1
    BY <1>7
  <2> QED BY SMT, <2>1, <2>2, <1>1
<1> QED BY <1>8, <1>9 DEF d

(* The next name is the next number: no file has it (nextArchiveName).     *)
LEMMA NextName ==
  ASSUME LogTypes, Named
  PROVE  nextSequence(logNow) = sequence + 1
<1> DEFINE R == sequence + 1 .. sequence + 1 + Cardinality(archives)
           P(n) == /\ ~\E a \in archives : a.stamp = logNow /\ a.seq = n /\ ~a.gz
                   /\ \A m \in sequence + 1 .. n - 1 :
                        \E a \in archives : a.stamp = logNow /\ a.seq = m /\ ~a.gz
<1>1. sequence \in Nat /\ Cardinality(archives) \in Nat
  BY FS_CardinalityType DEF LogTypes
<1>2. \A a \in archives : a.stamp = logNow => a.seq <= sequence
  BY DEF Named, Fresh
<1>2a. \A a \in archives : a.stamp = logNow => a.seq # sequence + 1
  <2> SUFFICES ASSUME NEW a \in archives, a.stamp = logNow PROVE a.seq # sequence + 1
    OBVIOUS
  <2>1. a.seq <= sequence /\ a.seq \in Nat
    BY <1>2 DEF LogTypes, Archive
  <2> QED BY SMT, <2>1, <1>1
<1>3. sequence + 1 \in R /\ P(sequence + 1)
  <2>1. \A m \in sequence + 1 .. (sequence + 1) - 1 : FALSE
    BY SMT, <1>1
  <2>2. sequence + 1 \in R
    BY SMT, <1>1
  <2> QED BY <2>1, <2>2, <1>2a
<1>4. ASSUME NEW n \in R, P(n) PROVE n = sequence + 1
  <2>1. CASE n # sequence + 1
    <3>1. sequence + 1 \in sequence + 1 .. n - 1
      BY SMT, <2>1, <1>1
    <3> QED BY <3>1, <1>4, <1>2a
  <2> QED BY <2>1
<1>5. nextSequence(logNow) = CHOOSE n \in R : P(n)
  BY DEF nextSequence
<1> HIDE DEF R, P
<1> QED BY <1>3, <1>4, <1>5

(* The archive a rotation makes takes no file's place (rotate).            *)
NewArchive == [stamp |-> logNow, seq |-> sequence + 1, gz |-> FALSE, records |-> current, mtime |-> logNow]

(* Archiving adds one archive.                                             *)
LEMMA ArchivedAdds ==
  ASSUME LogTypes, Named
  PROVE  Archived(logNow) = archives \cup {NewArchive} /\ NewArchive \in Archive
<1>1. nextSequence(logNow) = sequence + 1
  BY NextName
<1>2. \A x \in archives : ~(x.stamp = logNow /\ x.seq = sequence + 1)
  <2> SUFFICES ASSUME NEW x \in archives, x.stamp = logNow PROVE x.seq # sequence + 1
    OBVIOUS
  <2>1. x.seq <= sequence /\ x.seq \in Nat /\ sequence \in Nat
    BY DEF Named, Fresh, LogTypes, Archive
  <2> QED BY SMT, <2>1
<1>3. NewArchive \in Archive
  BY SMT DEF NewArchive, Archive, LogTypes
<1>4. NewArchive.stamp = logNow /\ NewArchive.seq = sequence + 1
  BY DEF NewArchive
<1>5. Archived(logNow) = {x \in archives : ~(x.stamp = NewArchive.stamp /\ x.seq = NewArchive.seq /\ ~x.gz)} \cup {NewArchive}
  BY <1>1 DEF Archived, NewArchive
<1> QED BY <1>2, <1>3, <1>4, <1>5

(* What holds of the archives' names and records passes to a set made of   *)
(* the same names and records.                                             *)
LEMMA QuietStep ==
  ASSUME LogInv, UNCHANGED <<archives, current, acked, cleaned>>,
         lastRecord' \in Nat, lastRecord' >= lastRecord, logNow' \in Nat, sequence' \in Nat,
         (logNow' = logNow /\ sequence' >= sequence) \/ logNow' > logNow,
         worker' \in [at : Busy \cup {"select", "ended"}, todo : Seq(Archive)], Work'
  PROVE  LogInv'
<1>1. LogTypes'
  BY DEF LogInv, LogTypes
<1>2. Fresh(archives, logNow', sequence')
  <2> SUFFICES ASSUME NEW a \in archives
               PROVE a.stamp <= logNow' /\ (a.stamp = logNow' => a.seq <= sequence')
    BY DEF Fresh
  <2>1. a.stamp <= logNow /\ (a.stamp = logNow => a.seq <= sequence)
    BY DEF LogInv, Named, Fresh
  <2>2. a.stamp \in Nat /\ a.seq \in Nat /\ logNow \in Nat /\ sequence \in Nat
    BY DEF LogInv, LogTypes, Archive
  <2> QED BY SMT, <2>1, <2>2
<1>3. Named'
  BY <1>2 DEF LogInv, Named
<1>4. UpTo'
  <2>1. ASSUME NEW r, r \in Nat, r <= lastRecord PROVE r <= lastRecord'
    BY SMT, <2>1 DEF LogInv, LogTypes
  <2>2. \A r \in Range(current) : r \in Nat
    BY SMT DEF LogInv, LogTypes, Range
  <2>3. \A a \in archives : \A r \in Range(a.records) : r \in Nat
    <3> SUFFICES ASSUME NEW a \in archives PROVE \A r \in Range(a.records) : r \in Nat
      OBVIOUS
    <3>1. a.records \in Seq(Nat)
      BY DEF LogInv, LogTypes, Archive
    <3> QED BY SMT, <3>1 DEF Range
  <2> QED BY <2>1, <2>2, <2>3 DEF LogInv, UpTo
<1>5. LogIsKept'
  BY DEF LogInv, LogIsKept, LogIsWhole, LogInOrder
<1> QED BY <1>1, <1>3, <1>4, <1>5 DEF LogInv

(* The worker's list: kept as the archives grow, empty when it rests, all  *)
(* that is uncompressed when it begins, and shorter by one afterwards.     *)
LEMMA WorkGrows ==
  ASSUME Work, worker' = worker, archives \subseteq archives'
  PROVE  Work'
BY DEF Work, Listed

(* A worker that rests or has ended has nothing to do.                     *)
LEMMA WorkRests ==
  ASSUME worker' \in {Nap, [Nap EXCEPT !.at = "ended"]}
  PROVE  Work' /\ worker' \in [at : Busy \cup {"select", "ended"}, todo : Seq(Archive)]
<1>1. worker'.todo = << >> /\ worker'.at \in {"select", "ended"} /\ worker' = [at |-> worker'.at, todo |-> << >>]
  BY SMT DEF Nap
<1>2. << >> \in Seq(Archive) /\ DOMAIN << >> = {}
  BY SMT
<1> QED BY <1>1, <1>2 DEF Work, Listed, Busy

(* A worker begins with the archives that are not compressed.              *)
LEMMA WorkBegins ==
  ASSUME LogInv, NEW x \in {"gzip", "gzipLast"}, worker' = [at |-> x, todo |-> Uncompressed], archives' = archives
  PROVE  Work' /\ worker' \in [at : Busy \cup {"select", "ended"}, todo : Seq(Archive)]
<1> DEFINE S == {a \in archives : ~a.gz}
<1>1. S \subseteq Archive /\ IsFiniteSet(S)
  BY FS_Subset DEF LogInv, LogTypes
<1>2. Distinct(S)
  BY DEF LogInv, Named, Distinct
<1>3. /\ Uncompressed \in Seq(S)
      /\ \A i, j \in DOMAIN Uncompressed : Uncompressed[i] = Uncompressed[j] => i = j
  BY <1>1, <1>2, DiscoverLists DEF Uncompressed
<1>4. \A i \in DOMAIN Uncompressed : Uncompressed[i] \in S
  BY SMT, <1>3
<1>5. Uncompressed \in Seq(Archive)
  BY SMT, <1>1, <1>3
<1>6. Listed(Uncompressed, archives)
  BY <1>3, <1>4 DEF Listed
<1>7. worker'.at = x /\ worker'.todo = Uncompressed
  OBVIOUS
<1> HIDE DEF S
<1> QED BY <1>5, <1>6, <1>7 DEF Work, Busy

(* A worker goes on with the rest of its list.                             *)
LEMMA WorkGoesOn ==
  ASSUME LogInv, worker' = Next1, worker.todo # << >>, \A x \in archives : x # Head(worker.todo) /\ ~x.gz => x \in archives'
  PROVE  Work' /\ worker' \in [at : Busy \cup {"select", "ended"}, todo : Seq(Archive)]
<1> DEFINE t == worker.todo
<1>1. t \in Seq(Archive) /\ t # << >> /\ Listed(t, archives)
  BY DEF LogInv, LogTypes, Work
<1>2. worker'.todo = Tail(t) /\ worker'.at \in {"gzip", "gzipLast"} /\ worker' = [at |-> worker'.at, todo |-> Tail(t)]
  BY DEF Next1
<1> HIDE DEF t
<1>3. Tail(t) \in Seq(Archive) /\ Len(t) \in Nat /\ Len(t) > 0 /\ DOMAIN t = 1 .. Len(t) /\ Head(t) = t[1]
      /\ DOMAIN Tail(t) = 1 .. Len(t) - 1 /\ \A i \in 1 .. Len(t) - 1 : Tail(t)[i] = t[i + 1]
  BY SMT, <1>1
<1>4. ASSUME NEW i \in DOMAIN Tail(t) PROVE Tail(t)[i] \in archives' /\ ~Tail(t)[i].gz
  <2>1. i + 1 \in DOMAIN t /\ 1 \in DOMAIN t /\ i + 1 # 1 /\ Tail(t)[i] = t[i + 1]
    BY SMT, <1>3
  <2>2. t[i + 1] \in archives /\ ~t[i + 1].gz /\ t[i + 1] # t[1]
    BY <2>1, <1>1 DEF Listed
  <2> QED BY <2>1, <2>2, <1>3 DEF t
<1>5. ASSUME NEW i \in DOMAIN Tail(t), NEW j \in DOMAIN Tail(t), Tail(t)[i] = Tail(t)[j] PROVE i = j
  <2>1. i + 1 \in DOMAIN t /\ j + 1 \in DOMAIN t /\ Tail(t)[i] = t[i + 1] /\ Tail(t)[j] = t[j + 1] /\ i \in Nat /\ j \in Nat
    BY SMT, <1>3
  <2>2. i + 1 = j + 1
    BY <2>1, <1>5, <1>1 DEF Listed
  <2> QED BY SMT, <2>1, <2>2
<1>6. Listed(Tail(t), archives')
  BY <1>4, <1>5 DEF Listed
<1> QED BY <1>2, <1>3, <1>6 DEF Work, Busy

(* The records of an archive are numbers.                                  *)
LEMMA RecordsAreNumbers ==
  ASSUME LogTypes
  PROVE  /\ \A r \in Range(current) : r \in Nat
         /\ \A a \in archives : \A r \in Range(a.records) : r \in Nat
<1>1. \A r \in Range(current) : r \in Nat
  BY SMT DEF LogTypes, Range
<1>2. ASSUME NEW a \in archives PROVE \A r \in Range(a.records) : r \in Nat
  <2>1. a.records \in Seq(Nat)
    BY DEF LogTypes, Archive
  <2> QED BY SMT, <2>1 DEF Range
<1> QED BY <1>1, <1>2

(* Append adds one element.                                                *)
LEMMA RangeAppend ==
  ASSUME NEW s \in Seq(Nat), NEW x \in Nat
  PROVE  Range(Append(s, x)) = Range(s) \cup {x}
<1> DEFINE t == Append(s, x)
<1>1. /\ Len(s) \in Nat /\ DOMAIN s = 1 .. Len(s) /\ DOMAIN t = 1 .. Len(s) + 1
      /\ t[Len(s) + 1] = x /\ \A i \in 1 .. Len(s) : t[i] = s[i]
  BY SMT
<1> HIDE DEF t
<1>2. \A i \in 1 .. Len(s) + 1 : i \in 1 .. Len(s) \/ i = Len(s) + 1
  BY SMT, <1>1
<1>3. \A i \in 1 .. Len(s) : i \in 1 .. Len(s) + 1
  BY SMT, <1>1
<1>4. Len(s) + 1 \in 1 .. Len(s) + 1
  BY SMT, <1>1
<1>5. Range(t) \subseteq Range(s) \cup {x}
  BY <1>1, <1>2 DEF Range
<1>6. Range(s) \cup {x} \subseteq Range(t)
  BY <1>1, <1>3, <1>4 DEF Range
<1> QED BY <1>5, <1>6 DEF t

(* Write into the current file.                                            *)
LEMMA WriteStep == LogInv /\ WriteRecord => LogInv'
<1> SUFFICES ASSUME LogInv, WriteRecord PROVE LogInv'
  OBVIOUS
<1> DEFINE n == lastRecord + 1
<1>1. /\ lastRecord' = n /\ acked' = acked \cup {n} /\ current' = Append(current, n)
      /\ UNCHANGED <<logNow, sequence, archives, worker, cleaned>>
  BY DEF WriteRecord, Take
<1>2. LogTypes /\ n \in Nat /\ n > lastRecord /\ lastRecord \in Nat
  BY SMT DEF LogInv, LogTypes
<1> HIDE DEF n
<1>3. LogTypes'
  BY SMT, <1>1, <1>2 DEF LogTypes
<1>4. Range(current') = Range(current) \cup {n}
  BY <1>1, <1>2, RangeAppend DEF LogTypes
<1>5. Named'
  BY <1>1 DEF LogInv, Named
<1>6. UpTo'
  <2>1. ASSUME NEW r, r \in Nat, r <= lastRecord \/ r = n PROVE r <= lastRecord'
    BY SMT, <2>1, <1>1, <1>2
  <2>2. \A r \in Range(current') : r <= lastRecord'
    BY <2>1, <1>2, <1>4, RecordsAreNumbers DEF LogInv, UpTo
  <2>3. \A a \in archives' : \A r \in Range(a.records) : r <= lastRecord'
    BY <2>1, <1>1, <1>2, RecordsAreNumbers DEF LogInv, UpTo
  <2> QED BY <2>2, <2>3 DEF UpTo
<1>7. Work'
  BY <1>1, WorkGrows DEF LogInv
<1>8. LogIsWhole'
  BY <1>1, <1>4 DEF LogInv, LogIsKept, LogIsWhole
<1>9. LogInOrder'
  <2>1. ASSUME NEW a \in archives, NEW r \in Range(a.records) PROVE r < n
    <3>1. r \in Nat /\ r <= lastRecord
      BY <1>2, RecordsAreNumbers DEF LogInv, UpTo
    <3> QED BY SMT, <3>1, <1>2
  <2>2. \A a \in archives : \A r \in Range(a.records), c \in Range(current') : r < c
    BY <2>1, <1>4 DEF LogInv, LogIsKept, LogInOrder
  <2> QED BY <2>2, <1>1 DEF LogInv, LogIsKept, LogInOrder
<1> QED BY <1>3, <1>5, <1>6, <1>7, <1>8, <1>9 DEF LogInv, LogIsKept

(* The current file becomes an archive, newer than all others, and a new   *)
(* one begins (rotate), whether or not it could be opened.                 *)
LEMMA RotateStep ==
  ASSUME LogInv, archives' = Archived(logNow), sequence' = nextSequence(logNow),
         UNCHANGED <<logNow, worker, cleaned>>, lastRecord' = lastRecord + 1,
         \/ current' = << >> /\ acked' = acked
         \/ current' = <<lastRecord + 1>> /\ acked' = acked \cup {lastRecord + 1}
  PROVE  LogInv'
<1> DEFINE n == lastRecord + 1
<1>1. /\ archives' = archives \cup {NewArchive} /\ NewArchive \in Archive /\ sequence' = sequence + 1
      /\ LogTypes /\ Named
  BY NextName, ArchivedAdds DEF LogInv
<1>2. n \in Nat /\ n > lastRecord /\ lastRecord \in Nat /\ lastRecord' = n
  BY SMT, <1>1 DEF LogTypes
<1>3. /\ NewArchive.stamp = logNow /\ NewArchive.seq = sequence + 1 /\ NewArchive.gz = FALSE
      /\ NewArchive.records = current
  BY DEF NewArchive
<1>4. current' \in Seq(Nat) /\ Range(current') \subseteq {n} /\ acked' \subseteq acked \cup Range(current')
  <2>1. CASE current' = << >> /\ acked' = acked
    BY SMT, <2>1 DEF Range
  <2>2. CASE current' = <<n>> /\ acked' = acked \cup {n}
    BY SMT, <2>2, <1>2 DEF Range
  <2> QED BY <2>1, <2>2
<1> HIDE DEF n
<1>5. LogTypes'
  <2>1. IsFiniteSet(archives')
    <3>1. IsFiniteSet(archives)
      BY <1>1 DEF LogTypes
    <3>2. IsFiniteSet(archives \cup {NewArchive})
      BY ONLY <3>1, FS_AddElement
    <3> QED BY ONLY <3>2, <1>1
  <2> QED BY SMT, <2>1, <1>1, <1>2, <1>4 DEF LogTypes
<1>6. ASSUME NEW a \in archives
      PROVE  a.stamp \in Nat /\ a.seq \in Nat /\ logNow \in Nat /\ sequence \in Nat
             /\ a.stamp <= logNow /\ (a.stamp = logNow => a.seq <= sequence)
  BY <1>1 DEF LogTypes, Archive, Named, Fresh
<1>7. ASSUME NEW a \in archives
      PROVE  ~SameName(a, NewArchive) /\ ~SameName(NewArchive, a) /\ ~Newer(a, NewArchive)
  BY SMT, <1>6, <1>3 DEF SameName, Newer
<1>8. Named'
  <2>1. Fresh(archives', logNow', sequence')
    <3> SUFFICES ASSUME NEW a \in archives' PROVE a.stamp <= logNow /\ (a.stamp = logNow => a.seq <= sequence + 1)
      BY <1>1 DEF Fresh
    <3>1. CASE a \in archives
      BY SMT, <3>1, <1>6
    <3>2. CASE a = NewArchive
      BY SMT, <3>2, <1>1, <1>3 DEF LogTypes
    <3> QED BY <3>1, <3>2, <1>1
  <2>2. Distinct(archives')
    BY <1>1, <1>7 DEF Named, Distinct
  <2>3. Copies(archives')
    BY <1>1, <1>7 DEF Named, Copies
  <2> QED BY <2>1, <2>2, <2>3 DEF Named
<1>9. UpTo'
  <2>1. ASSUME NEW r, r \in Nat, r <= lastRecord \/ r = n PROVE r <= lastRecord'
    BY SMT, <2>1, <1>2
  <2>2. \A r \in Range(current') : r <= lastRecord'
    BY <2>1, <1>2, <1>4
  <2>3. ASSUME NEW a \in archives', NEW r \in Range(a.records) PROVE r <= lastRecord'
    BY <2>1, <1>1, <1>3, RecordsAreNumbers DEF LogInv, UpTo
  <2> QED BY <2>2, <2>3 DEF UpTo
<1>10. Work'
  BY <1>1, WorkGrows DEF LogInv
<1>11. LogIsWhole'
  <2>1. Records(archives') = Records(archives) \cup Range(current)
    BY <1>1, <1>3 DEF Records
  <2> QED BY <2>1, <1>4 DEF LogInv, LogIsKept, LogIsWhole
<1>12. LogInOrder'
  <2>1. ASSUME NEW a \in archives', NEW r \in Range(a.records), NEW c \in Range(current') PROVE r < c
    <3>1. r \in Nat /\ r <= lastRecord
      BY <1>1, <1>3, RecordsAreNumbers DEF LogInv, UpTo
    <3> QED BY SMT, <3>1, <1>2, <1>4
  <2>2. ASSUME NEW a \in archives', NEW b \in archives', ~SameName(a, b), Newer(a, b),
               NEW r \in Range(a.records), NEW s \in Range(b.records)
        PROVE  s < r
    <3>1. CASE a \in archives /\ b \in archives
      BY <3>1, <2>2 DEF LogInv, LogIsKept, LogInOrder
    <3>2. CASE a = NewArchive /\ b \in archives
      BY <3>2, <1>3 DEF LogInv, LogIsKept, LogInOrder
    <3>3. CASE a \in archives /\ b = NewArchive
      BY <3>3, <2>2, <1>7
    <3>4. CASE a = NewArchive /\ b = NewArchive
      BY <3>4, <2>2 DEF SameName
    <3> QED BY <3>1, <3>2, <3>3, <3>4, <1>1
  <2> QED BY <2>1, <2>2 DEF LogInOrder
<1> QED BY <1>5, <1>8, <1>9, <1>10, <1>11, <1>12 DEF LogInv, LogIsKept

(* The compressed copy appears beside its source: no record goes, and a    *)
(* copy it replaces held the same (gzipArchive).                           *)
LEMMA PublishStep == LogInv /\ PublishGzip => LogInv'
<1> SUFFICES ASSUME LogInv, PublishGzip PROVE LogInv'
  OBVIOUS
<1> DEFINE a == Head(worker.todo)
           g == Gz(a)
<1>1. /\ archives' = {x \in archives : ~(SameName(x, a) /\ x.gz)} \cup {g}
      /\ UNCHANGED <<logNow, current, sequence, lastRecord, acked, cleaned>>
      /\ worker.at \in {"gzip", "gzipLast"} /\ worker.todo # << >>
      /\ worker' = [worker EXCEPT !.at = IF worker.at = "gzip" THEN "remove" ELSE "removeLast"]
  BY DEF PublishGzip, Compressing
<1>2. LogTypes /\ Listed(worker.todo, archives)
  BY DEF LogInv, Work
<1>3. a \in archives /\ ~a.gz /\ a \in Archive
  <2>1. worker.todo \in Seq(Archive)
    BY <1>2 DEF LogTypes
  <2>2. 1 \in DOMAIN worker.todo /\ a = worker.todo[1]
    BY SMT, <2>1, <1>1
  <2> QED BY <2>2, <1>2 DEF Listed, LogTypes
<1>4. g \in Archive /\ g.stamp = a.stamp /\ g.seq = a.seq /\ g.gz = TRUE /\ g.records = a.records
  BY <1>2, <1>3 DEF Gz, Archive, LogTypes
<1> HIDE DEF a, g
<1>5. ASSUME NEW x PROVE (SameName(x, g) <=> SameName(x, a)) /\ (SameName(g, x) <=> SameName(a, x))
  BY <1>4 DEF SameName
<1>6. worker'.todo = worker.todo /\ worker'.at \in {"remove", "removeLast"}
      /\ worker' \in [at : Busy \cup {"select", "ended"}, todo : Seq(Archive)]
  BY <1>1, <1>2 DEF LogTypes, Busy
<1>7. LogTypes'
  <2>1. IsFiniteSet({x \in archives : ~(SameName(x, a) /\ x.gz)})
    BY <1>2, FS_Subset DEF LogTypes
  <2>2. IsFiniteSet({x \in archives : ~(SameName(x, a) /\ x.gz)} \cup {g})
    BY ONLY <2>1, FS_AddElement
  <2> QED BY <2>2, <1>1, <1>2, <1>4, <1>6 DEF LogTypes
<1>8. Named'
  <2>1. Fresh(archives', logNow', sequence')
    BY <1>1, <1>3, <1>4 DEF LogInv, Named, Fresh
  <2>2. Distinct(archives')
    <3> SUFFICES ASSUME NEW x \in archives', NEW y \in archives', SameName(x, y), x.gz = y.gz PROVE x = y
      BY DEF Distinct
    <3>1. CASE x # g /\ y # g
      BY <3>1, <1>1 DEF LogInv, Named, Distinct
    <3>2. CASE x = g /\ y # g
      BY <3>2, <1>1, <1>4 DEF SameName
    <3>3. CASE x # g /\ y = g
      BY <3>3, <1>1, <1>4 DEF SameName
    <3> QED BY <3>1, <3>2, <3>3
  <2>3. Copies(archives')
    <3> SUFFICES ASSUME NEW x \in archives', NEW y \in archives', SameName(x, y) PROVE x.records = y.records
      BY DEF Copies
    <3>1. Copies(archives)
      BY DEF LogInv, Named
    <3>2. CASE x # g /\ y # g
      BY <3>1, <3>2, <1>1 DEF Copies
    <3>3. CASE x = g /\ y # g
      BY <3>1, <3>3, <1>1, <1>3, <1>4, <1>5 DEF Copies
    <3>4. CASE x # g /\ y = g
      BY <3>1, <3>4, <1>1, <1>3, <1>4, <1>5 DEF Copies
    <3> QED BY <3>2, <3>3, <3>4
  <2> QED BY <2>1, <2>2, <2>3 DEF Named
<1>9. UpTo'
  BY <1>1, <1>3, <1>4 DEF LogInv, UpTo
<1>10. Work'
  <2>1. Listed(worker.todo, archives')
    BY <1>1, <1>2 DEF Listed
  <2>2. g \in archives' /\ SameName(g, Head(worker'.todo)) /\ g.gz
    BY <1>1, <1>4, <1>6 DEF a, SameName
  <2> QED BY <2>1, <2>2, <1>1, <1>6 DEF Work, Busy
<1>11. LogIsWhole'
  <2>1. ASSUME NEW x \in archives PROVE \E y \in archives' : y.records = x.records
    BY <1>1, <1>3, <1>4 DEF LogInv, Named, Copies
  <2>2. Records(archives) \subseteq Records(archives')
    BY <2>1 DEF Records
  <2> QED BY <2>2, <1>1 DEF LogInv, LogIsKept, LogIsWhole
<1>12. LogInOrder'
  <2>1. \A x \in archives' : \A r \in Range(x.records), c \in Range(current') : r < c
    BY <1>1, <1>3, <1>4 DEF LogInv, LogIsKept, LogInOrder
  <2>2. ASSUME NEW x \in archives', NEW y \in archives', ~SameName(x, y), Newer(x, y),
               NEW r \in Range(x.records), NEW s \in Range(y.records)
        PROVE  s < r
    <3> DEFINE old(z) == IF z = g THEN a ELSE z
    <3>1. ASSUME NEW z \in archives' PROVE old(z) \in archives /\ old(z).stamp = z.stamp /\ old(z).seq = z.seq /\ old(z).records = z.records
      BY <1>1, <1>3, <1>4
    <3> HIDE DEF old
    <3>2. ~SameName(old(x), old(y)) /\ Newer(old(x), old(y))
      BY <3>1, <2>2 DEF SameName, Newer
    <3> QED BY <3>1, <3>2 DEF LogInv, LogIsKept, LogInOrder
  <2> QED BY <2>1, <2>2 DEF LogInOrder
<1> QED BY <1>7, <1>8, <1>9, <1>10, <1>11, <1>12 DEF LogInv, LogIsKept

(* Archives go, and what they held is in others or counted as cleaned.     *)
LEMMA FewerStep ==
  ASSUME LogInv, archives' \subseteq archives, Records(archives) \subseteq Records(archives') \cup cleaned',
         cleaned \subseteq cleaned', UNCHANGED <<logNow, current, sequence, lastRecord, acked>>,
         Work', worker' \in [at : Busy \cup {"select", "ended"}, todo : Seq(Archive)]
  PROVE  LogInv'
<1>1. LogTypes'
  BY FS_Subset DEF LogInv, LogTypes
<1>2. Named'
  BY DEF LogInv, Named, Fresh, Distinct, Copies
<1>3. UpTo'
  BY DEF LogInv, UpTo
<1>4. LogIsWhole'
  BY DEF LogInv, LogIsKept, LogIsWhole
<1>5. LogInOrder'
  BY DEF LogInv, LogIsKept, LogInOrder
<1> QED BY <1>1, <1>2, <1>3, <1>4, <1>5 DEF LogInv, LogIsKept

(* The source goes when its copy is there, or the copy goes and the source *)
(* stays (gzipArchive).                                                    *)
LEMMA RemoveStep == LogInv /\ RemoveSource => LogInv'
<1> SUFFICES ASSUME LogInv, RemoveSource PROVE LogInv'
  OBVIOUS
<1> DEFINE a == Head(worker.todo)
<1>1. /\ \/ archives' = archives \ {a}
         \/ archives' = {x \in archives : ~(SameName(x, a) /\ x.gz)}
      /\ worker' = Next1 /\ worker.at \in {"remove", "removeLast"}
      /\ UNCHANGED <<logNow, current, sequence, lastRecord, acked, cleaned>>
  BY DEF RemoveSource
<1>2. LogTypes /\ Listed(worker.todo, archives) /\ worker.todo # << >>
      /\ \E b \in archives : SameName(b, a) /\ b.gz
  BY <1>1 DEF LogInv, Work
<1>3. a \in archives /\ ~a.gz
  <2>1. worker.todo \in Seq(Archive)
    BY <1>2 DEF LogTypes
  <2>2. 1 \in DOMAIN worker.todo /\ a = worker.todo[1]
    BY SMT, <2>1, <1>2
  <2> QED BY <2>2, <1>2 DEF Listed
<1>4. Work' /\ worker' \in [at : Busy \cup {"select", "ended"}, todo : Seq(Archive)]
  <2>1. \A x \in archives : x # Head(worker.todo) /\ ~x.gz => x \in archives'
    BY <1>1
  <2> QED BY <2>1, <1>1, <1>2, WorkGoesOn
<1> HIDE DEF a
<1>5. ASSUME NEW x \in archives PROVE \E y \in archives' : y.records = x.records
  <2>1. Copies(archives)
    BY DEF LogInv, Named
  <2>2. CASE archives' = archives \ {a}
    BY <2>1, <2>2, <1>2, <1>3 DEF Copies
  <2>3. CASE archives' = {z \in archives : ~(SameName(z, a) /\ z.gz)}
    BY <2>1, <2>3, <1>3 DEF Copies
  <2> QED BY <2>2, <2>3, <1>1
<1>6. Records(archives) \subseteq Records(archives')
  BY <1>5 DEF Records
<1> QED BY <1>1, <1>4, <1>6, FewerStep

(* cleanup removes archives and counts what they held.                     *)
LEMMA CleanupStep == LogInv /\ Cleanup => LogInv'
<1> SUFFICES ASSUME LogInv, Cleanup PROVE LogInv'
  OBVIOUS
<1>1. Retained \subseteq archives
  BY DEF Retained
<1>2. worker' \in {Nap, [Nap EXCEPT !.at = "ended"]}
  BY DEF Cleanup
<1>3. /\ archives' = Retained /\ cleaned' = cleaned \cup (Records(archives) \ Records(archives'))
      /\ UNCHANGED <<logNow, current, sequence, lastRecord, acked>>
  BY DEF Cleanup
<1> QED BY <1>1, <1>2, <1>3, WorkRests, FewerStep

(* Every step keeps the invariant.                                         *)
LEMMA LogStep == LogInv /\ [LogNext]_logVars => LogInv'
<1> SUFFICES ASSUME LogInv, [LogNext]_logVars PROVE LogInv'
  OBVIOUS
<1>0. /\ logNow \in Nat /\ sequence \in Nat /\ lastRecord \in Nat
      /\ worker \in [at : Busy \cup {"select", "ended"}, todo : Seq(Archive)] /\ Work
      /\ LogTypes /\ Named
  BY DEF LogInv, LogTypes
<1>1. CASE LogTick
  BY SMT, <1>1, <1>0, QuietStep, WorkGrows DEF LogTick
<1>2. CASE WriteRecord
  BY <1>2, WriteStep
<1>3. CASE RotateAndWrite
  BY <1>3, RotateStep DEF RotateAndWrite, Take
<1>4. CASE RotateFails
  <2>1. sequence' = sequence + 1
    BY <1>4, <1>0, NextName DEF RotateFails
  <2> QED BY SMT, <2>1, <1>4, <1>0, QuietStep, WorkGrows DEF RotateFails
<1>5. CASE ReopenFails
  BY <1>5, RotateStep DEF ReopenFails
<1>6. CASE WriteRefused
  BY SMT, <1>6, <1>0, QuietStep, WorkGrows DEF WriteRefused
<1>7. CASE CloseWriter
  BY SMT, <1>7, <1>0, QuietStep, WorkGrows DEF CloseWriter
<1>8. CASE WakeUp
  BY SMT, <1>8, <1>0, QuietStep, WorkBegins DEF WakeUp
<1>9. CASE LastRound
  BY SMT, <1>9, <1>0, QuietStep, WorkBegins DEF LastRound
<1>10. CASE PublishGzip
  BY <1>10, PublishStep
<1>11. CASE GzipFails
  BY SMT, <1>11, <1>0, QuietStep, WorkGoesOn DEF GzipFails, Compressing
<1>12. CASE RemoveSource
  BY <1>12, RemoveStep
<1>13. CASE Cleanup
  BY <1>13, CleanupStep
<1>14. CASE LogCrash
  BY SMT, <1>14, <1>0, QuietStep, WorkRests DEF LogCrash
<1>15. CASE NewRotatingWriter
  BY SMT, <1>15, <1>0, QuietStep, WorkRests DEF NewRotatingWriter
<1>16. CASE UNCHANGED logVars
  BY SMT, <1>16, <1>0, QuietStep, WorkGrows DEF logVars
<1> QED BY <1>1, <1>2, <1>3, <1>4, <1>5, <1>6, <1>7, <1>8, <1>9, <1>10, <1>11, <1>12, <1>13, <1>14,
           <1>15, <1>16 DEF LogNext, WorkerStep

(* For any sizes, limits and days, and any number of records, failures and *)
(* restarts: every record Write took is in a file until cleanup removes    *)
(* it, and the files in the order of their names have the records in the   *)
(* order they were written (rotate.go).                                    *)
THEOREM LogIsKeptCorrect == LogSpec => []LogIsKept
<1>1. LogInit => LogInv
  <2> SUFFICES ASSUME LogInit PROVE LogInv
    OBVIOUS
  <2>1. archives = {} /\ current = << >> /\ worker = [at |-> "select", todo |-> << >>]
        /\ logNow = 0 /\ sequence = 0 /\ lastRecord = 0 /\ acked = {} /\ cleaned = {}
    BY DEF LogInit, Nap
  <2>2. LogTypes
    BY SMT, <2>1, FS_EmptySet DEF LogTypes
  <2>3. Named
    BY <2>1 DEF Named, Fresh, Distinct, Copies
  <2>4. UpTo
    BY SMT, <2>1 DEF UpTo, Range
  <2>5. Work
    BY SMT, <2>1 DEF Work, Listed, Busy
  <2>6. LogIsKept
    BY <2>1 DEF LogIsKept, LogIsWhole, LogInOrder
  <2> QED BY <2>2, <2>3, <2>4, <2>5, <2>6 DEF LogInv
<1>2. LogInv => LogIsKept
  BY DEF LogInv
<1> QED BY <1>1, <1>2, LogStep, PTL DEF LogSpec

-----------------------------------------------------------------------------
(***************************************************************************)
(* The recent log buffer.                                                  *)
(***************************************************************************)

LogLines == [line : Nat, begun : Int, at : Int, size : Nat]
WrittenLines == Seq([begun : Int, at : Int])

(* A buffer is a record of these fields; what its bytes add up to matters  *)
(* to which lines are evicted, and not to what the coverage says.          *)
IsBuffer(b) ==
  /\ b = [lines |-> b.lines, bytes |-> b.bytes, partial |-> b.partial, begun |-> b.begun,
          dropping |-> b.dropping, coverageFrom |-> b.coverageFrom]
  /\ b.begun \in Int /\ b.coverageFrom \in Int
  /\ b.lines \in Seq(LogLines) /\ b.partial \in Nat

(* The lines kept are lines written, in the order they were completed.     *)
KeptLines(b, w) ==
  /\ \A j \in 1 .. Len(b.lines) :
       /\ b.lines[j].line \in DOMAIN w
       /\ b.lines[j].at = w[b.lines[j].line].at
       /\ b.lines[j].begun = w[b.lines[j].line].begun
  /\ \A j, k \in 1 .. Len(b.lines) : j <= k => b.lines[j].at <= b.lines[k].at

Keeps(b, i) == \E j \in 1 .. Len(b.lines) : b.lines[j].line = i

(* A line written that is not kept began before what the buffer covers,    *)
(* and so did one that is being dropped.                                   *)
BufferInv(b, w, t) ==
  /\ IsBuffer(b) /\ KeptLines(b, w)
  /\ w \in WrittenLines
  /\ \A i \in DOMAIN w : w[i].begun <= w[i].at /\ w[i].at <= t
  /\ \A i \in DOMAIN w : Keeps(b, i) \/ w[i].begun < b.coverageFrom
  /\ b.begun <= t
  /\ b.dropping => b.begun < b.coverageFrom

(* A set of numbers that is not empty has a least element. *)
LEMMA LeastNumber ==
  ASSUME NEW S \in SUBSET Nat, S # {}
  PROVE  \E x \in S : \A y \in S : x <= y
<1>1. PICK R : R = {ss \in Nat \X Nat : ss[1] < ss[2]}
  OBVIOUS
<1>2. PICK x \in S : \A y \in S : ~(<<y, x>> \in R)
  BY <1>1, NatLessThanWellFounded, WFMin DEF OpToRel
<1>3. \A y \in S : <<y, x>> \in Nat \X Nat /\ <<y, x>>[1] = y /\ <<y, x>>[2] = x
  OBVIOUS
<1>4. \A y \in S : ~(y < x)
  BY <1>1, <1>2, <1>3
<1> QED BY SMT, <1>4

(* The largest of some integers that none exceeds h.                       *)
LEMMA MaxOK ==
  ASSUME NEW S \in SUBSET Int, S # {}, NEW h \in Int, \A x \in S : x <= h
  PROVE  Max(S) \in S
<1> DEFINE below == {h - x : x \in S}
<1>0. \A x \in S : h - x \in Nat
  BY SMT
<1>1. below \in SUBSET Nat /\ below # {}
  BY <1>0
<1>2. PICK b \in below : \A y \in below : b <= y
  BY <1>1, LeastNumber
<1>3. PICK x \in S : b = h - x
  BY <1>2
<1>4. \A y \in S : h - x <= h - y
  BY <1>2, <1>3
<1>5. \A y \in S : x >= y
  BY SMT, <1>4
<1> QED
  BY <1>5 DEF Max

(* An element of a sequence.                                               *)
LEMMA ElementOK ==
  ASSUME NEW S, NEW w \in Seq(S), NEW i \in DOMAIN w
  PROVE  w[i] \in S
BY SMT

(* The times of a line written, and of a line kept.                        *)
LEMMA WrittenType ==
  ASSUME NEW w \in WrittenLines, NEW i \in DOMAIN w
  PROVE  w[i].begun \in Int /\ w[i].at \in Int
<1>1. w \in Seq([begun : Int, at : Int])
  BY DEF WrittenLines
<1>2. w[i] \in [begun : Int, at : Int]
  BY <1>1, ElementOK
<1> QED BY <1>2

(* The times of a line.                                                    *)
LEMMA LineType ==
  ASSUME NEW s \in Seq(LogLines), NEW j \in 1 .. Len(s)
  PROVE  s[j].begun \in Int /\ s[j].at \in Int /\ s[j].at + 1 \in Int
<1>1. s[j] \in LogLines
  BY SMT
<1>2. s[j].begun \in Int /\ s[j].at \in Int
  BY <1>1 DEF LogLines
<1> QED BY SMT, <1>2

(* What is left when n lines have gone.                                    *)
LEMMA RestOfLines ==
  ASSUME NEW s \in Seq(LogLines), NEW n \in 1 .. Len(s)
  PROVE  LET rest == SubSeq(s, n + 1, Len(s))
         IN  /\ rest \in Seq(LogLines) /\ Len(rest) = Len(s) - n
             /\ \A j \in 1 .. Len(rest) : rest[j] = s[j + n]
BY SMT

(* A buffer with some of its fields replaced.                              *)
LEMMA ReplaceOK ==
  ASSUME NEW b, IsBuffer(b), NEW x, NEW y
  PROVE  [b EXCEPT !.lines = x, !.bytes = y]
           = [lines |-> x, bytes |-> y, partial |-> b.partial, begun |-> b.begun,
              dropping |-> b.dropping, coverageFrom |-> b.coverageFrom]
<1> DEFINE e == [b EXCEPT !.lines = x]
<1>1. e = [lines |-> x, bytes |-> b.bytes, partial |-> b.partial, begun |-> b.begun,
           dropping |-> b.dropping, coverageFrom |-> b.coverageFrom]
  BY SMT DEF IsBuffer
<1>2. [b EXCEPT !.lines = x, !.bytes = y] = [e EXCEPT !.bytes = y]
  OBVIOUS
<1> HIDE DEF e
<1>3. [e EXCEPT !.bytes = y]
        = [lines |-> x, bytes |-> y, partial |-> b.partial, begun |-> b.begun,
           dropping |-> b.dropping, coverageFrom |-> b.coverageFrom]
  BY SMT, <1>1
<1> QED BY <1>2, <1>3

(* Moving the coverage on leaves the rest of a buffer alone.               *)
LEMMA AdvanceOK ==
  ASSUME NEW b, IsBuffer(b), NEW t \in Int
  PROVE  LET c == advanceCoverage(b, t)
         IN  /\ IsBuffer(c)
             /\ c.lines = b.lines /\ c.begun = b.begun /\ c.dropping = b.dropping
             /\ c.partial = b.partial
             /\ c.coverageFrom >= b.coverageFrom /\ c.coverageFrom >= t
<1> DEFINE f == IF t > b.coverageFrom THEN t ELSE b.coverageFrom
           c == advanceCoverage(b, t)
<1>1. f \in Int /\ f >= b.coverageFrom /\ f >= t
  BY SMT DEF IsBuffer
<1>2. c = [b EXCEPT !.coverageFrom = f]
  BY DEF advanceCoverage
<1> HIDE DEF f, c
<1>3. c = [lines |-> b.lines, bytes |-> b.bytes, partial |-> b.partial, begun |-> b.begun,
           dropping |-> b.dropping, coverageFrom |-> f]
  BY SMT, <1>2 DEF IsBuffer
<1>4. /\ c.lines = b.lines /\ c.begun = b.begun /\ c.dropping = b.dropping
      /\ c.partial = b.partial /\ c.bytes = b.bytes /\ c.coverageFrom = f
  BY <1>3
<1>5. IsBuffer(c)
  BY <1>1, <1>3, <1>4 DEF IsBuffer
<1> QED BY <1>1, <1>4, <1>5 DEF c

(* Evicting takes lines off the front, and covers only what follows them.  *)
LEMMA EvictOK ==
  ASSUME NEW b, NEW w, NEW t \in Int, NEW u, BufferInv(b, w, t)
  PROVE  LET c == evict(b, u)
         IN  /\ BufferInv(c, w, t)
             /\ c.begun = b.begun /\ c.dropping = b.dropping /\ c.partial = b.partial
<1> DEFINE gone(k) == FoldFunction(LAMBDA l, sum : l.size + sum, 0, SubSeq(b.lines, 1, k))
           old(k)  == \/ RecentAge > 0 /\ b.lines[k].at < u - RecentAge
                      \/ b.bytes - gone(k - 1) > RecentBytes
           S == {0} \cup {k \in DOMAIN b.lines : \A j \in 1 .. k : old(j)}
           n == Max(S)
           kept == [b EXCEPT !.lines = SubSeq(@, n + 1, Len(@)), !.bytes = @ - gone(n)]
           c == evict(b, u)
<1>1. c = IF n = 0 THEN b ELSE advanceCoverage(kept, b.lines[n].at + 1)
  BY DEF evict
<1>2. IsBuffer(b) /\ KeptLines(b, w) /\ w \in WrittenLines
  BY DEF BufferInv
<1>3. DOMAIN b.lines = 1 .. Len(b.lines) /\ Len(b.lines) \in Nat
  BY SMT, <1>2 DEF IsBuffer
<1>4. n \in S
  <2> HIDE DEF old
  <2>1. S \subseteq 0 .. Len(b.lines)
    BY SMT, <1>3
  <2>2. S \in SUBSET Int /\ S # {} /\ \A x \in S : x <= Len(b.lines)
    BY SMT, <1>3, <2>1
  <2>3. Len(b.lines) \in Int
    BY SMT, <1>3
  <2> QED BY <2>2, <2>3, MaxOK
<1> HIDE DEF old, n, c
<1>5. n \in 0 .. Len(b.lines)
  BY SMT, <1>3, <1>4
<1> DEFINE x == b.bytes - gone(n)
<1> HIDE DEF gone, S
<1>6. CASE n = 0
  BY <1>1, <1>6 DEF c
<1>7. CASE n # 0
  <2> DEFINE rest == SubSeq(b.lines, n + 1, Len(b.lines))
  <2>1. n \in 1 .. Len(b.lines)
    BY SMT, <1>3, <1>5, <1>7
  <2>2. /\ rest \in Seq(LogLines) /\ Len(rest) = Len(b.lines) - n
        /\ \A j \in 1 .. Len(rest) : rest[j] = b.lines[j + n]
    BY <1>2, <2>1, RestOfLines DEF IsBuffer
  <2> HIDE DEF rest, x
  <2>3. kept = [lines |-> rest, bytes |-> x, partial |-> b.partial, begun |-> b.begun,
                dropping |-> b.dropping, coverageFrom |-> b.coverageFrom]
    BY <1>2, ReplaceOK DEF rest, x
  <2> HIDE DEF kept
  <2>4. /\ kept.lines = rest /\ kept.begun = b.begun /\ kept.dropping = b.dropping
        /\ kept.partial = b.partial /\ kept.coverageFrom = b.coverageFrom /\ kept.bytes = x
    BY <2>3
  <2>5. Len(rest) \in Nat
    BY SMT, <1>3, <2>1, <2>2
  <2>6. IsBuffer(kept)
    BY <1>2, <2>2, <2>3, <2>4, <2>5 DEF IsBuffer
  <2>7. b.lines[n].at \in Int /\ b.lines[n].at + 1 \in Int
    BY <1>2, <2>1, LineType DEF IsBuffer
  <2>8. /\ IsBuffer(c)
        /\ c.lines = rest /\ c.begun = b.begun /\ c.dropping = b.dropping /\ c.partial = b.partial
        /\ c.coverageFrom >= b.coverageFrom /\ c.coverageFrom >= b.lines[n].at + 1
    BY <1>1, <1>7, <2>4, <2>6, <2>7, AdvanceOK
  <2>9. \A j \in 1 .. Len(rest) : rest[j] = b.lines[j + n] /\ j + n \in 1 .. Len(b.lines)
    BY SMT, <1>3, <2>1, <2>2
  <2>10. KeptLines(c, w)
    <3>1. \A j, k \in 1 .. Len(rest) : j <= k => j + n <= k + n
      BY SMT, <2>1, <2>5, <1>3
    <3> QED BY <1>2, <2>8, <2>9, <3>1 DEF KeptLines
  <2>11. ASSUME NEW i \in DOMAIN w PROVE Keeps(c, i) \/ w[i].begun < c.coverageFrom
    <3>1. CASE w[i].begun < b.coverageFrom
      <4>1. w[i].begun \in Int
        BY <1>2, WrittenType
      <4>2. b.coverageFrom \in Int /\ c.coverageFrom \in Int
        BY <1>2, <2>8 DEF IsBuffer
      <4> QED BY SMT, <3>1, <2>8, <4>1, <4>2
    <3>2. CASE Keeps(b, i)
      <4>1. PICK j \in 1 .. Len(b.lines) : b.lines[j].line = i
        BY <3>2 DEF Keeps
      <4>2. CASE j <= n
        <5>1. b.lines[j].at <= b.lines[n].at /\ w[i].begun <= b.lines[j].at
          BY <1>2, <2>1, <4>1, <4>2 DEF KeptLines, BufferInv
        <5>2. w[i].begun \in Int
          BY <1>2, WrittenType
        <5>3. b.lines[j].at \in Int
          BY <1>2, <4>1, LineType DEF IsBuffer
        <5>4. c.coverageFrom \in Int
          BY <2>8 DEF IsBuffer
        <5> QED BY SMT, <2>7, <2>8, <5>1, <5>2, <5>3, <5>4
      <4>3. CASE ~(j <= n)
        <5>1. j - n \in 1 .. Len(rest) /\ (j - n) + n = j
          BY SMT, <1>3, <2>1, <2>2, <4>1, <4>3
        <5> QED BY <2>8, <2>9, <4>1, <5>1 DEF Keeps
      <4> QED BY <4>2, <4>3
    <3> QED BY <3>1, <3>2 DEF BufferInv
  <2>12. c.dropping => c.begun < c.coverageFrom
    <3>1. b.dropping => b.begun < b.coverageFrom
      BY DEF BufferInv
    <3>2. b.begun \in Int /\ b.coverageFrom \in Int /\ c.coverageFrom \in Int
      BY <1>2, <2>8 DEF IsBuffer
    <3> QED BY SMT, <2>8, <3>1, <3>2
  <2> QED BY <2>8, <2>10, <2>11, <2>12 DEF BufferInv, c
<1> QED BY <1>6, <1>7

(* Dropping the rest of a line, or no longer; beginning one, adding to it; *)
(* and putting a line in: the fields that change.                          *)
LEMMA SetOK ==
  ASSUME NEW b, IsBuffer(b), NEW x, NEW y
  PROVE  /\ [b EXCEPT !.dropping = x]
              = [lines |-> b.lines, bytes |-> b.bytes, partial |-> b.partial, begun |-> b.begun,
                 dropping |-> x, coverageFrom |-> b.coverageFrom]
         /\ [b EXCEPT !.begun = x]
              = [lines |-> b.lines, bytes |-> b.bytes, partial |-> b.partial, begun |-> x,
                 dropping |-> b.dropping, coverageFrom |-> b.coverageFrom]
         /\ [b EXCEPT !.partial = x]
              = [lines |-> b.lines, bytes |-> b.bytes, partial |-> x, begun |-> b.begun,
                 dropping |-> b.dropping, coverageFrom |-> b.coverageFrom]
         /\ [b EXCEPT !.partial = x, !.dropping = y]
              = [lines |-> b.lines, bytes |-> b.bytes, partial |-> x, begun |-> b.begun,
                 dropping |-> y, coverageFrom |-> b.coverageFrom]
<1> DEFINE p == [b EXCEPT !.partial = x]
<1>1. [b EXCEPT !.dropping = x]
        = [lines |-> b.lines, bytes |-> b.bytes, partial |-> b.partial, begun |-> b.begun,
           dropping |-> x, coverageFrom |-> b.coverageFrom]
  BY SMT DEF IsBuffer
<1>2. [b EXCEPT !.begun = x]
        = [lines |-> b.lines, bytes |-> b.bytes, partial |-> b.partial, begun |-> x,
           dropping |-> b.dropping, coverageFrom |-> b.coverageFrom]
  BY SMT DEF IsBuffer
<1>3. p = [lines |-> b.lines, bytes |-> b.bytes, partial |-> x, begun |-> b.begun,
           dropping |-> b.dropping, coverageFrom |-> b.coverageFrom]
  BY SMT DEF IsBuffer
<1>5. [b EXCEPT !.partial = x, !.dropping = y] = [p EXCEPT !.dropping = y]
  OBVIOUS
<1> HIDE DEF p
<1>7. [p EXCEPT !.dropping = y]
        = [lines |-> b.lines, bytes |-> b.bytes, partial |-> x, begun |-> b.begun,
           dropping |-> y, coverageFrom |-> b.coverageFrom]
  BY SMT, <1>3
<1> QED BY <1>1, <1>2, <1>3, <1>5, <1>7 DEF p

Put(b, x, y, z) == [b EXCEPT !.lines = x, !.bytes = y, !.partial = z]

(* A buffer with its lines, bytes and partial line replaced.               *)
LEMMA PutOK ==
  ASSUME NEW b, IsBuffer(b), NEW x, NEW y, NEW z
  PROVE  Put(b, x, y, z)
           = [lines |-> x, bytes |-> y, partial |-> z, begun |-> b.begun,
              dropping |-> b.dropping, coverageFrom |-> b.coverageFrom]
<1> DEFINE l == [b EXCEPT !.lines = x, !.bytes = y]
<1>1. l = [lines |-> x, bytes |-> y, partial |-> b.partial, begun |-> b.begun,
           dropping |-> b.dropping, coverageFrom |-> b.coverageFrom]
  BY ReplaceOK
<1>2. Put(b, x, y, z) = [l EXCEPT !.partial = z]
  BY DEF Put
<1> HIDE DEF l
<1>3. [l EXCEPT !.partial = z]
        = [lines |-> x, bytes |-> y, partial |-> z, begun |-> b.begun,
           dropping |-> b.dropping, coverageFrom |-> b.coverageFrom]
  BY SMT, <1>1
<1> QED BY <1>2, <1>3

(* The invariant holds as time passes.                                     *)
LEMMA LaterOK ==
  ASSUME NEW b, NEW w, NEW t \in Int, NEW u \in Int, t <= u, BufferInv(b, w, t)
  PROVE  BufferInv(b, w, u)
<1>1. b.begun \in Int /\ \A i \in DOMAIN w : w[i].at \in Int
  BY WrittenType DEF BufferInv, IsBuffer
<1>2. /\ b.begun <= t => b.begun <= u
      /\ \A i \in DOMAIN w : w[i].at <= t => w[i].at <= u
  BY SMT, <1>1
<1> QED BY <1>2 DEF BufferInv

(* A line that begins now.                                                 *)
LEMMA BeginOK ==
  ASSUME NEW b, NEW w, NEW t \in Int, BufferInv(b, w, t)
  PROVE  BufferInv(Begin(b, t), w, t)
<1> DEFINE c == [b EXCEPT !.begun = t]
<1>1. CASE ~(b.partial = 0 /\ ~b.dropping)
  BY <1>1 DEF Begin
<1>2. CASE b.partial = 0 /\ ~b.dropping
  <2>1. c = [lines |-> b.lines, bytes |-> b.bytes, partial |-> b.partial, begun |-> t,
             dropping |-> b.dropping, coverageFrom |-> b.coverageFrom]
    BY SetOK DEF BufferInv
  <2> HIDE DEF c
  <2>2. /\ c.lines = b.lines /\ c.begun = t /\ c.dropping = b.dropping /\ c.bytes = b.bytes
        /\ c.partial = b.partial /\ c.coverageFrom = b.coverageFrom
    BY <2>1
  <2>3. t <= t
    BY SMT
  <2>4. IsBuffer(c) /\ KeptLines(c, w) /\ (\A i \in DOMAIN w : Keeps(b, i) => Keeps(c, i))
    BY <2>1, <2>2 DEF IsBuffer, KeptLines, Keeps, BufferInv
  <2>5. BufferInv(c, w, t)
    BY <1>2, <2>2, <2>3, <2>4 DEF BufferInv
  <2> QED BY <1>2, <2>5 DEF Begin, c
<1> QED BY <1>1, <1>2

(* Some bytes of a line: kept, or the line is dropped from here on.        *)
LEMMA AppendPartialOK ==
  ASSUME NEW b, NEW w, NEW t \in Int, NEW len \in Nat, BufferInv(b, w, t), ~b.dropping
  PROVE  LET c == appendPartial(b, len, t)
         IN  BufferInv(c, w, t) /\ c.begun = b.begun
<1> DEFINE c == appendPartial(b, len, t)
           d == [b EXCEPT !.partial = 0, !.dropping = TRUE]
           e == [b EXCEPT !.partial = @ + len]
<1>1. IsBuffer(b) /\ b.partial \in Nat /\ b.begun \in Int /\ b.coverageFrom \in Int /\ w \in WrittenLines
  BY DEF BufferInv, IsBuffer
<1>2. \/ c = b
      \/ c = advanceCoverage(d, t + 1)
      \/ c = e
  BY DEF appendPartial
<1>3. CASE c = advanceCoverage(d, t + 1)
  <2>1. d = [lines |-> b.lines, bytes |-> b.bytes, partial |-> 0, begun |-> b.begun,
             dropping |-> TRUE, coverageFrom |-> b.coverageFrom]
    BY <1>1, SetOK
  <2> HIDE DEF c, d
  <2>2. /\ d.lines = b.lines /\ d.begun = b.begun /\ d.dropping = TRUE /\ d.bytes = b.bytes
        /\ d.partial = 0 /\ d.coverageFrom = b.coverageFrom
    BY <2>1
  <2>3. t + 1 \in Int /\ 0 \in Nat
    BY SMT
  <2>4. IsBuffer(d)
    BY <1>1, <2>1, <2>2, <2>3 DEF IsBuffer
  <2>5. /\ IsBuffer(c) /\ c.lines = b.lines /\ c.begun = b.begun
        /\ c.coverageFrom >= b.coverageFrom /\ c.coverageFrom >= t + 1
    BY <1>3, <2>2, <2>3, <2>4, AdvanceOK
  <2>6. c.coverageFrom \in Int /\ b.begun <= t
    BY <2>5 DEF IsBuffer, BufferInv
  <2>7. c.begun < c.coverageFrom
    BY SMT, <1>1, <2>5, <2>6
  <2>8. \A i \in DOMAIN w : w[i].begun \in Int
    BY <1>1, WrittenType
  <2>9. \A i \in DOMAIN w : w[i].begun < b.coverageFrom => w[i].begun < c.coverageFrom
    BY SMT, <1>1, <2>5, <2>6, <2>8
  <2>10. KeptLines(c, w) /\ (\A i \in DOMAIN w : Keeps(b, i) => Keeps(c, i))
    BY <2>5 DEF KeptLines, Keeps, BufferInv
  <2>11. BufferInv(c, w, t)
    BY <2>5, <2>6, <2>7, <2>9, <2>10 DEF BufferInv
  <2> QED BY <2>5, <2>11 DEF c
<1>4. CASE c = e
  <2>0. b.partial + len \in Nat
    BY SMT, <1>1
  <2>1. e = [lines |-> b.lines, bytes |-> b.bytes, partial |-> b.partial + len, begun |-> b.begun,
             dropping |-> b.dropping, coverageFrom |-> b.coverageFrom]
    BY <1>1, SetOK
  <2> HIDE DEF c, e
  <2>2. /\ e.lines = b.lines /\ e.begun = b.begun /\ e.dropping = b.dropping /\ e.bytes = b.bytes
        /\ e.partial = b.partial + len /\ e.coverageFrom = b.coverageFrom
    BY <2>1
  <2>3. IsBuffer(e) /\ KeptLines(e, w) /\ (\A i \in DOMAIN w : Keeps(b, i) => Keeps(e, i))
    BY <2>0, <2>1, <2>2 DEF IsBuffer, KeptLines, Keeps, BufferInv
  <2>4. BufferInv(e, w, t)
    BY <2>2, <2>3 DEF BufferInv
  <2> QED BY <1>4, <2>2, <2>4 DEF c
<1> QED BY <1>2, <1>3, <1>4

Segments == [len : Nat, ended : BOOLEAN]

(* Writing one more line adds it after the others.                         *)
Entry(a, t) == [begun |-> a, at |-> t]
Longer(w, a, t) == Append(w, Entry(a, t))

(* One line more in the record of what was written.                        *)
LEMMA AppendWritten ==
  ASSUME NEW w \in WrittenLines, NEW a \in Int, NEW t \in Int
  PROVE  /\ Longer(w, a, t) \in WrittenLines
         /\ DOMAIN Longer(w, a, t) = DOMAIN w \cup {Len(w) + 1} /\ Len(w) + 1 \in Nat
         /\ \A i \in DOMAIN w : i \in DOMAIN Longer(w, a, t) /\ Longer(w, a, t)[i] = w[i]
         /\ Longer(w, a, t)[Len(w) + 1] = Entry(a, t)
<1> DEFINE r == Entry(a, t)
           R == [begun : Int, at : Int]
<1>1. w \in Seq(R) /\ r \in R
  BY DEF WrittenLines, Entry
<1> HIDE DEF r, R
<1>2. /\ Append(w, r) \in Seq(R)
      /\ DOMAIN Append(w, r) = DOMAIN w \cup {Len(w) + 1} /\ Len(w) + 1 \in Nat
      /\ \A i \in DOMAIN w : i \in DOMAIN Append(w, r) /\ Append(w, r)[i] = w[i]
      /\ Append(w, r)[Len(w) + 1] = r
  BY SMT, <1>1
<1> QED BY <1>2 DEF r, R, WrittenLines, Longer

(* The end of a line that was dropped.                                     *)
LEMMA DroppedOK ==
  ASSUME NEW b, NEW w, NEW t \in Int, BufferInv(b, w, t), b.dropping
  PROVE  BufferInv([b EXCEPT !.dropping = FALSE], Longer(w, b.begun, t), t)
<1> DEFINE c == [b EXCEPT !.dropping = FALSE]
           r == Entry(b.begun, t)
           v == Longer(w, b.begun, t)
           n == Len(w) + 1
<1>1. IsBuffer(b) /\ b.begun \in Int /\ w \in WrittenLines /\ KeptLines(b, w)
  BY DEF BufferInv, IsBuffer
<1>2. c = [lines |-> b.lines, bytes |-> b.bytes, partial |-> b.partial, begun |-> b.begun,
           dropping |-> FALSE, coverageFrom |-> b.coverageFrom]
  BY <1>1, SetOK
<1>3. /\ v \in WrittenLines /\ DOMAIN v = DOMAIN w \cup {n} /\ n \in Nat
      /\ (\A i \in DOMAIN w : i \in DOMAIN v /\ v[i] = w[i]) /\ v[n] = r
  <2>1. b.begun \in Int /\ w \in WrittenLines /\ t \in Int
    BY <1>1
  <2> QED BY ONLY Zenon, <2>1, AppendWritten
<1>4. r.begun = b.begun /\ r.at = t /\ t <= t
  BY SMT DEF Entry
<1> HIDE DEF c, r, v, n
<1>5. /\ c.lines = b.lines /\ c.begun = b.begun /\ c.dropping = FALSE /\ c.bytes = b.bytes
      /\ c.partial = b.partial /\ c.coverageFrom = b.coverageFrom
  BY <1>2
<1>6. IsBuffer(c)
  BY <1>1, <1>2, <1>5 DEF IsBuffer
<1>7. KeptLines(c, v) /\ (\A i \in DOMAIN w : Keeps(b, i) => Keeps(c, i))
  <2>1. \A j \in 1 .. Len(b.lines) :
          /\ b.lines[j].line \in DOMAIN v
          /\ b.lines[j].at = v[b.lines[j].line].at
          /\ b.lines[j].begun = v[b.lines[j].line].begun
    <3> SUFFICES ASSUME NEW j \in 1 .. Len(b.lines)
                 PROVE  /\ b.lines[j].line \in DOMAIN v
                        /\ b.lines[j].at = v[b.lines[j].line].at
                        /\ b.lines[j].begun = v[b.lines[j].line].begun
      OBVIOUS
    <3> DEFINE k == b.lines[j].line
    <3>1. k \in DOMAIN w /\ b.lines[j].at = w[k].at /\ b.lines[j].begun = w[k].begun
      BY <1>1 DEF KeptLines
    <3>2. k \in DOMAIN v /\ v[k] = w[k]
      BY <1>3, <3>1
    <3> QED BY <3>1, <3>2
  <2> QED BY SMT, <1>1, <1>5, <2>1 DEF KeptLines, Keeps
<1>8. b.begun <= t /\ b.begun < b.coverageFrom
  BY DEF BufferInv
<1>9. BufferInv(c, v, t)
  BY <1>3, <1>4, <1>5, <1>6, <1>7, <1>8 DEF BufferInv
<1> QED BY <1>9 DEF c, v

(* The end of a line that is kept.                                         *)
LEMMA KeptOK ==
  ASSUME NEW b, NEW w, NEW t \in Int, NEW y, BufferInv(b, w, t), ~b.dropping
  PROVE  LET l == [line |-> Len(w) + 1, begun |-> b.begun, at |-> t, size |-> b.partial + 1]
         IN  BufferInv([b EXCEPT !.lines = Append(@, l), !.bytes = y, !.partial = 0],
                       Longer(w, b.begun, t), t)
<1> DEFINE l == [line |-> Len(w) + 1, begun |-> b.begun, at |-> t, size |-> b.partial + 1]
           ls == Append(b.lines, l)
           c == [b EXCEPT !.lines = ls, !.bytes = y, !.partial = 0]
           r == Entry(b.begun, t)
           v == Longer(w, b.begun, t)
           n == Len(w) + 1
           m == Len(b.lines) + 1
<1>1. /\ IsBuffer(b) /\ b.begun \in Int /\ w \in WrittenLines /\ KeptLines(b, w)
      /\ b.lines \in Seq(LogLines) /\ b.partial \in Nat /\ b.coverageFrom \in Int
  BY DEF BufferInv, IsBuffer
<1>2. c = [lines |-> ls, bytes |-> y, partial |-> 0, begun |-> b.begun,
           dropping |-> b.dropping, coverageFrom |-> b.coverageFrom]
  <2> HIDE DEF ls, c
  <2>1. c = Put(b, ls, y, 0)
    BY DEF Put, c
  <2> QED BY SMT, <1>1, <2>1, PutOK
<1>3. /\ v \in WrittenLines /\ DOMAIN v = DOMAIN w \cup {n} /\ n \in Nat
      /\ (\A i \in DOMAIN w : i \in DOMAIN v /\ v[i] = w[i]) /\ v[n] = r
  BY <1>1, AppendWritten
<1>4. r.begun = b.begun /\ r.at = t /\ t <= t /\ b.partial + 1 \in Nat /\ 0 \in Nat
  BY SMT, <1>1 DEF Entry
<1>5. l \in LogLines /\ l.line = n /\ l.begun = b.begun /\ l.at = t
  BY <1>1, <1>3, <1>4 DEF LogLines
<1> HIDE DEF c, r, v, n, l
<1>6. /\ ls \in Seq(LogLines) /\ Len(ls) = m /\ ls[m] = l /\ m \in Nat
      /\ \A j \in 1 .. Len(b.lines) : ls[j] = b.lines[j]
  BY SMT, <1>1, <1>5
<1>7. /\ \A j \in 1 .. m : j # m => j \in 1 .. Len(b.lines)
      /\ \A j \in 1 .. Len(b.lines) : j \in 1 .. m
      /\ \A j \in 1 .. m : m <= j => j = m
      /\ m \in 1 .. m
  BY SMT, <1>1
<1> HIDE DEF ls, m
<1>8. /\ c.lines = ls /\ c.begun = b.begun /\ c.dropping = b.dropping /\ c.bytes = y
      /\ c.partial = 0 /\ c.coverageFrom = b.coverageFrom
  BY <1>2
<1>9. IsBuffer(c)
  BY <1>1, <1>2, <1>4, <1>6, <1>8 DEF IsBuffer
<1>10. \A j \in 1 .. m :
          ls[j].line \in DOMAIN v /\ ls[j].at = v[ls[j].line].at /\ ls[j].begun = v[ls[j].line].begun
  <2> SUFFICES ASSUME NEW j \in 1 .. m
               PROVE  ls[j].line \in DOMAIN v /\ ls[j].at = v[ls[j].line].at
                        /\ ls[j].begun = v[ls[j].line].begun
    OBVIOUS
  <2>1. CASE j = m
    BY <1>3, <1>4, <1>5, <1>6, <2>1
  <2>2. CASE j # m
    <3> DEFINE k == b.lines[j].line
    <3>1. j \in 1 .. Len(b.lines) /\ ls[j] = b.lines[j]
      BY <1>6, <1>7, <2>2
    <3>2. k \in DOMAIN w /\ b.lines[j].at = w[k].at /\ b.lines[j].begun = w[k].begun
      BY <1>1, <3>1 DEF KeptLines
    <3>3. k \in DOMAIN v /\ v[k] = w[k]
      BY <1>3, <3>2
    <3> QED BY <3>1, <3>2, <3>3
  <2> QED BY <2>1, <2>2
<1>11. \A j, k \in 1 .. m : j <= k => ls[j].at <= ls[k].at
  <2> SUFFICES ASSUME NEW j \in 1 .. m, NEW k \in 1 .. m, j <= k PROVE ls[j].at <= ls[k].at
    OBVIOUS
  <2>1. CASE k = m
    <3>1. CASE j = m
      BY <1>4, <1>5, <1>6, <2>1, <3>1
    <3>2. CASE j # m
      <4>1. j \in 1 .. Len(b.lines) /\ ls[j] = b.lines[j] /\ ls[k].at = t
        BY <1>5, <1>6, <1>7, <2>1, <3>2
      <4>2. b.lines[j].line \in DOMAIN w /\ b.lines[j].at = w[b.lines[j].line].at
        BY <1>1, <4>1 DEF KeptLines
      <4>3. w[b.lines[j].line].at <= t
        BY <4>2 DEF BufferInv
      <4> QED BY <4>1, <4>2, <4>3
    <3> QED BY <3>1, <3>2
  <2>2. CASE k # m
    BY <1>1, <1>6, <1>7, <2>2 DEF KeptLines
  <2> QED BY <2>1, <2>2
<1>12. KeptLines(c, v)
  BY <1>6, <1>8, <1>10, <1>11 DEF KeptLines
<1>13. Keeps(c, n) /\ \A i \in DOMAIN w : Keeps(b, i) => Keeps(c, i)
  BY <1>5, <1>6, <1>7, <1>8 DEF Keeps
<1>14. b.begun <= t
  BY DEF BufferInv
<1>15. BufferInv(c, v, t)
  BY <1>3, <1>4, <1>8, <1>9, <1>12, <1>13, <1>14 DEF BufferInv
<1> QED BY <1>15 DEF c, v, l, ls

(* One turn of Write's loop, with the line it completes.                   *)
LEMMA SegmentOK ==
  ASSUME NEW b, NEW w, NEW t \in Int, NEW seg \in Segments, BufferInv(b, w, t)
  PROVE  BufferInv(Segment(b, seg, t, Len(w) + 1),
                   IF seg.ended THEN Longer(w, b.begun, t) ELSE w, t)
<1> DEFINE c == appendPartial(b, seg.len, t)
           l == [line |-> Len(w) + 1, begun |-> c.begun, at |-> t, size |-> c.partial + 1]
           d == [c EXCEPT !.lines = Append(@, l), !.bytes = @ + c.partial + 1, !.partial = 0]
           y == c.bytes + c.partial + 1
           v == Longer(w, b.begun, t)
           s == Segment(b, seg, t, Len(w) + 1)
<1>1. seg.len \in Nat /\ seg.ended \in BOOLEAN
  BY DEF Segments
<1>2. CASE b.dropping
  <2>1. CASE seg.ended
    <3>1. s = [b EXCEPT !.dropping = FALSE]
      BY <1>2, <2>1 DEF Segment
    <3>2. BufferInv([b EXCEPT !.dropping = FALSE], v, t)
      BY <1>2, DroppedOK
    <3> QED BY <2>1, <3>1, <3>2
  <2>2. CASE ~seg.ended
    <3> DEFINE e == [b EXCEPT !.dropping = TRUE]
    <3>1. s = e
      BY <1>2, <2>2 DEF Segment
    <3>2. e = [lines |-> b.lines, bytes |-> b.bytes, partial |-> b.partial, begun |-> b.begun,
               dropping |-> TRUE, coverageFrom |-> b.coverageFrom]
      BY SetOK DEF BufferInv
    <3> HIDE DEF e, s
    <3>3. /\ e.lines = b.lines /\ e.begun = b.begun /\ e.dropping = TRUE /\ e.bytes = b.bytes
          /\ e.partial = b.partial /\ e.coverageFrom = b.coverageFrom
      BY <3>2
    <3>4. IsBuffer(e) /\ KeptLines(e, w) /\ (\A i \in DOMAIN w : Keeps(b, i) => Keeps(e, i))
      BY <3>2, <3>3 DEF IsBuffer, KeptLines, Keeps, BufferInv
    <3>5. BufferInv(e, w, t)
      BY <1>2, <3>3, <3>4 DEF BufferInv
    <3> QED BY <2>2, <3>1, <3>5 DEF s
  <2> QED BY <1>1, <2>1, <2>2
<1>3. CASE ~b.dropping
  <2>1. BufferInv(c, w, t) /\ c.begun = b.begun
    BY <1>1, <1>3, AppendPartialOK
  <2>2. CASE ~seg.ended
    <3>1. s = c
      BY <1>3, <2>2 DEF Segment
    <3> QED BY <2>1, <2>2, <3>1
  <2>3. CASE seg.ended /\ c.dropping
    <3>1. s = [c EXCEPT !.dropping = FALSE]
      BY <1>3, <2>3 DEF Segment
    <3> HIDE DEF c
    <3>2. BufferInv([c EXCEPT !.dropping = FALSE], Longer(w, c.begun, t), t)
      BY <2>1, <2>3, DroppedOK
    <3> QED BY <2>1, <2>3, <3>1, <3>2
  <2>4. CASE seg.ended /\ ~c.dropping
    <3>1. s = evict(d, t)
      BY <1>3, <2>4 DEF Segment
    <3> HIDE DEF c
    <3>2. d = [c EXCEPT !.lines = Append(@, l), !.bytes = y, !.partial = 0]
      OBVIOUS
    <3> HIDE DEF y
    <3>3. BufferInv([c EXCEPT !.lines = Append(@, l), !.bytes = y, !.partial = 0], Longer(w, c.begun, t), t)
      BY <2>1, <2>4, KeptOK
    <3> HIDE DEF d
    <3>4. BufferInv(d, v, t)
      BY <2>1, <3>2, <3>3
    <3>5. BufferInv(evict(d, t), v, t)
      BY <3>4, EvictOK
    <3> QED BY <2>4, <3>1, <3>5
  <2> QED BY <1>1, <2>2, <2>3, <2>4
<1> QED BY <1>2, <1>3

TurnInv(s, t) == BufferInv(s.buffer, s.written, t)

(* A segment of a chunk keeps what is said of the buffer.                  *)
LEMMA TurnOK ==
  ASSUME NEW s, NEW t \in Int, NEW seg \in Segments, TurnInv(s, t)
  PROVE  TurnInv(SegmentTurn(s, seg, t), t)
<1> DEFINE b == Begin(s.buffer, t)
           w == s.written
           v == IF seg.ended THEN Longer(w, b.begun, t) ELSE w
           r == SegmentTurn(s, seg, t)
<1>1. BufferInv(b, w, t)
  BY BeginOK DEF TurnInv
<1>2. r.buffer = Segment(b, seg, t, Len(w) + 1) /\ r.written = v
  BY DEF SegmentTurn, Longer, Entry
<1> HIDE DEF b, w, r
<1>3. BufferInv(Segment(b, seg, t, Len(w) + 1), v, t)
  BY <1>1, SegmentOK
<1> QED BY <1>2, <1>3 DEF TurnInv, r

(* Write's loop has a turn for every segment of its chunk.                 *)
TurnByTurn(g, chunk, s, t) ==
  g[0] = s /\ \A i \in 1 .. Len(chunk) : g[i] = SegmentTurn(g[i - 1], chunk[i], t)

(* RecentBuffer.Write takes a chunk segment by segment.                    *)
LEMMA TurnsExist ==
  ASSUME NEW chunk \in Seq(Segments), NEW s, NEW t
  PROVE  TurnByTurn(SegmentTurns(chunk, s, t), chunk, s, t)
<1> DEFINE n == Len(chunk)
           P(m) == \E g : g = [i \in 0 .. m |-> IF i = 0 THEN s ELSE SegmentTurn(g[i - 1], chunk[i], t)]
           bad == {m \in 0 .. n : ~P(m)}
<1>0. n \in Nat /\ \A m \in 0 .. n : m \in Nat
  BY SMT
<1>1. P(0)
  <2> DEFINE g == [i \in 0 .. 0 |-> s]
  <2>1. g = [i \in 0 .. 0 |-> IF i = 0 THEN s ELSE SegmentTurn(g[i - 1], chunk[i], t)]
    BY SMT
  <2> HIDE DEF g
  <2> QED BY <2>1
<1>2. ASSUME NEW m \in 1 .. n, P(m - 1) PROVE P(m)
  <2>0. PICK g : g = [i \in 0 .. m - 1 |-> IF i = 0 THEN s ELSE SegmentTurn(g[i - 1], chunk[i], t)]
    BY <1>2
  <2> DEFINE x == SegmentTurn(g[m - 1], chunk[m], t)
             h == [i \in 0 .. m |-> IF i = m THEN x ELSE g[i]]
  <2>1. m \in Nat \ {0} /\ 0 # m
    BY SMT, <1>0
  <2>2. ASSUME NEW i \in 0 .. m PROVE h[i] = IF i = 0 THEN s ELSE SegmentTurn(h[i - 1], chunk[i], t)
    <3>1. CASE i = m
      <4>1. h[i] = x /\ h[i - 1] = g[m - 1] /\ i # 0
        <5> HIDE DEF x
        <5> QED BY SMT, <2>1, <3>1
      <4> QED BY <3>1, <4>1
    <3>2. CASE i # m
      <4>1. h[i] = g[i] /\ i \in 0 .. m - 1 /\ (i # 0 => h[i - 1] = g[i - 1])
        <5> HIDE DEF x
        <5> QED BY SMT, <2>1, <3>2
      <4>2. g[i] = IF i = 0 THEN s ELSE SegmentTurn(g[i - 1], chunk[i], t)
        BY <2>0, <4>1
      <4> QED BY <4>1, <4>2
    <3> QED BY <3>1, <3>2
  <2>3. h = [i \in 0 .. m |-> h[i]]
    OBVIOUS
  <2> HIDE DEF h
  <2>4. h = [i \in 0 .. m |-> IF i = 0 THEN s ELSE SegmentTurn(h[i - 1], chunk[i], t)]
    BY <2>2, <2>3
  <2> QED BY <2>4
<1> HIDE DEF P
<1>3. bad = {}
  <2> SUFFICES ASSUME bad # {} PROVE FALSE
    OBVIOUS
  <2>1. bad \in SUBSET Nat
    BY <1>0
  <2>2. PICK m \in bad : \A y \in bad : m <= y
    BY <2>1, LeastNumber
  <2>3. m # 0
    BY <1>1, <2>2
  <2>4. m \in 1 .. n /\ m - 1 \in 0 .. n /\ ~(m <= m - 1)
    BY SMT, <1>0, <2>2, <2>3
  <2>5. P(m - 1)
    BY <2>2, <2>4
  <2> QED BY <1>2, <2>2, <2>4, <2>5
<1>4. n \in 0 .. n
  BY SMT, <1>0
<1>5. P(n)
  BY <1>3, <1>4
<1> DEFINE g == SegmentTurns(chunk, s, t)
<1>6. g = [i \in 0 .. n |-> IF i = 0 THEN s ELSE SegmentTurn(g[i - 1], chunk[i], t)]
  BY <1>5 DEF P, SegmentTurns
<1>7. 0 \in 0 .. n /\ \A i \in 1 .. n : i \in 0 .. n /\ i # 0
  BY SMT, <1>0
<1> HIDE DEF g
<1>8. g[0] = s /\ \A i \in 1 .. n : g[i] = SegmentTurn(g[i - 1], chunk[i], t)
  BY <1>6, <1>7
<1> QED BY <1>8 DEF g, TurnByTurn

(* The loop keeps the invariant, however many segments there are.          *)
LEMMA TurnsOK ==
  ASSUME NEW chunk \in Seq(Segments), NEW s, NEW t \in Int, TurnInv(s, t)
  PROVE  TurnInv(SegmentTurns(chunk, s, t)[Len(chunk)], t)
<1> DEFINE n == Len(chunk)
           g == SegmentTurns(chunk, s, t)
           bad == {m \in 0 .. n : ~TurnInv(g[m], t)}
<1>0. n \in Nat /\ \A m \in 0 .. n : m \in Nat
  BY SMT
<1>1. g[0] = s /\ \A i \in 1 .. n : g[i] = SegmentTurn(g[i - 1], chunk[i], t)
  <2>1. TurnByTurn(g, chunk, s, t)
    BY TurnsExist
  <2> HIDE DEF g
  <2> QED BY <2>1 DEF TurnByTurn
<1> HIDE DEF g
<1>2. bad = {}
  <2> SUFFICES ASSUME bad # {} PROVE FALSE
    OBVIOUS
  <2>1. bad \in SUBSET Nat
    BY <1>0
  <2>2. PICK m \in bad : \A y \in bad : m <= y
    BY <2>1, LeastNumber
  <2>3. m # 0
    BY <1>1, <2>2
  <2>4. m \in 1 .. n /\ m - 1 \in 0 .. n /\ ~(m <= m - 1) /\ m \in 0 .. n
    BY SMT, <1>0, <2>2, <2>3
  <2>5. TurnInv(g[m - 1], t)
    BY <2>2, <2>4
  <2>6. chunk[m] \in Segments
    BY SMT, <2>4
  <2>7. g[m] = SegmentTurn(g[m - 1], chunk[m], t)
    BY <1>1, <2>4
  <2> QED BY <2>2, <2>5, <2>6, <2>7, TurnOK
<1>3. n \in 0 .. n
  BY SMT, <1>0
<1> QED BY <1>2, <1>3 DEF g

RecentInv == recentNow \in Int /\ BufferInv(recent, written, recentNow)

(* The invariant at the start.                                             *)
LEMMA RecentInitOK ==
  ASSUME RecentInit
  PROVE  RecentInv
<1>1. recentNow = 1 /\ written = << >>
  BY DEF RecentInit
<1>2. recent = [lines |-> << >>, bytes |-> 0, partial |-> 0, begun |-> 0,
                dropping |-> FALSE, coverageFrom |-> 1]
  BY DEF RecentInit
<1>3. /\ recent.lines = << >> /\ recent.bytes = 0 /\ recent.partial = 0 /\ recent.begun = 0
      /\ recent.dropping = FALSE /\ recent.coverageFrom = 1
  BY <1>2
<1>4. << >> \in Seq(LogLines) /\ << >> \in WrittenLines /\ DOMAIN << >> = {} /\ 1 .. Len(<< >>) = {}
  BY SMT DEF WrittenLines
<1>5. 0 \in Nat /\ 0 \in Int /\ 1 \in Int /\ 0 <= 1
  BY SMT
<1>6. IsBuffer(recent)
  BY <1>2, <1>3, <1>4, <1>5 DEF IsBuffer
<1>7. KeptLines(recent, written)
  BY <1>3, <1>4 DEF KeptLines
<1> QED BY <1>1, <1>3, <1>4, <1>5, <1>6, <1>7 DEF RecentInv, BufferInv

(* Every step keeps the invariant.                                         *)
LEMMA RecentStepOK ==
  ASSUME RecentInv, [RecentNext]_recentVars
  PROVE  RecentInv'
<1>0. recentNow \in Int /\ BufferInv(recent, written, recentNow)
  BY DEF RecentInv
<1>1. CASE RecentTick
  <2>1. recentNow' = recentNow + 1 /\ recent' = recent /\ written' = written
    BY <1>1 DEF RecentTick
  <2>2. recentNow' \in Int /\ recentNow <= recentNow'
    BY SMT, <1>0, <2>1
  <2> QED BY <1>0, <2>1, <2>2, LaterOK DEF RecentInv
<1>2. CASE ReadRecent
  <2>1. recent' = evict(recent, recentNow) /\ recentNow' = recentNow /\ written' = written
    BY <1>2 DEF ReadRecent
  <2> QED BY <1>0, <2>1, EvictOK DEF RecentInv
<1>3. ASSUME NEW chunk \in Chunks, WriteRecent(chunk) PROVE RecentInv'
  <2> DEFINE s == [buffer |-> evict(recent, recentNow), written |-> written]
             done == SegmentTurns(chunk, s, recentNow)[Len(chunk)]
  <2>1. recent' = done.buffer /\ written' = done.written /\ recentNow' = recentNow
    BY <1>3 DEF WriteRecent
  <2>2. chunk \in Seq(Segments)
    BY ChunkAssumption DEF Segments
  <2>3. BufferInv(evict(recent, recentNow), written, recentNow)
    BY <1>0, EvictOK
  <2>4. s.buffer = evict(recent, recentNow) /\ s.written = written
    OBVIOUS
  <2> HIDE DEF s
  <2>5. TurnInv(s, recentNow)
    BY <2>3, <2>4 DEF TurnInv
  <2>6. TurnInv(done, recentNow)
    BY <1>0, <2>2, <2>5, TurnsOK
  <2> HIDE DEF done
  <2> QED BY <1>0, <2>1, <2>6 DEF RecentInv, TurnInv
<1>4. CASE UNCHANGED recentVars
  BY <1>0, <1>4 DEF RecentInv, recentVars
<1> QED BY <1>1, <1>2, <1>3, <1>4 DEF RecentNext

(* An answer that says it covers its query has all of it.                  *)
LEMMA CoverageOK ==
  ASSUME RecentInv
  PROVE  CoveredIsComplete
<1> DEFINE c == evict(recent, recentNow)
<1>0. recentNow \in Int /\ BufferInv(c, written, recentNow)
  BY EvictOK DEF RecentInv
<1>1. IsBuffer(c) /\ KeptLines(c, written) /\ written \in WrittenLines
  BY <1>0 DEF BufferInv
<1>2. DOMAIN c.lines = 1 .. Len(c.lines)
  BY SMT, <1>1 DEF IsBuffer
<1> SUFFICES ASSUME NEW since \in 1 .. recentNow, NEW until \in 1 .. recentNow, Covered(since)
             PROVE  {l.line : l \in {x \in Lines(since, until) : x.begun >= since}}
                      = {i \in DOMAIN written : written[i].begun >= since /\ written[i].at <= until}
  BY DEF CoveredIsComplete
<1>3. since \in Int /\ until \in Int
  BY SMT, <1>0
<1>4. since >= c.coverageFrom /\ c.coverageFrom \in Int
  BY <1>1 DEF Covered, IsBuffer
<1>5. \A l : l \in Lines(since, until)
               <=> /\ \E j \in 1 .. Len(c.lines) : l = c.lines[j]
                   /\ since <= l.at /\ l.at <= until
  BY <1>2 DEF Lines, ToSet
<1> HIDE DEF c
<1>6. ASSUME NEW l \in Lines(since, until), l.begun >= since
      PROVE  /\ l.line \in DOMAIN written
             /\ written[l.line].begun >= since /\ written[l.line].at <= until
  <2>1. PICK j \in 1 .. Len(c.lines) : l = c.lines[j]
    BY <1>5
  <2>2. l.line \in DOMAIN written /\ l.at = written[l.line].at /\ l.begun = written[l.line].begun
    BY <1>1, <2>1 DEF KeptLines
  <2> QED BY <1>5, <1>6, <2>2
<1>7. ASSUME NEW i \in DOMAIN written, written[i].begun >= since, written[i].at <= until
      PROVE  \E l \in Lines(since, until) : l.begun >= since /\ i = l.line
  <2>1. written[i].begun \in Int /\ written[i].at \in Int
    BY <1>1, WrittenType
  <2>2. written[i].begun <= written[i].at
    BY <1>0 DEF BufferInv
  <2>3. ~(written[i].begun < c.coverageFrom) /\ since <= written[i].at
    BY SMT, <1>3, <1>4, <1>7, <2>1, <2>2
  <2>4. PICK j \in 1 .. Len(c.lines) : c.lines[j].line = i
    BY <1>0, <2>3 DEF BufferInv, Keeps
  <2>5. c.lines[j].at = written[i].at /\ c.lines[j].begun = written[i].begun
    BY <1>1, <2>4 DEF KeptLines
  <2>6. c.lines[j] \in Lines(since, until)
    BY <1>5, <1>7, <2>3, <2>5
  <2> QED BY <1>7, <2>4, <2>5, <2>6
<1> QED BY <1>6, <1>7

(* Whatever chunks are written and whenever, the recent buffer claims to   *)
(* cover a query only when it has every line the query asks for            *)
(* (recent.go Snapshot).                                                   *)
THEOREM CoveredIsCompleteCorrect == RecentSpec => []CoveredIsComplete
<1>1. RecentInit => RecentInv
  BY RecentInitOK
<1>2. RecentInv /\ [RecentNext]_recentVars => RecentInv'
  BY RecentStepOK
<1>3. RecentInv => CoveredIsComplete
  BY CoverageOK
<1> QED BY <1>1, <1>2, <1>3, PTL DEF RecentSpec
=============================================================================
