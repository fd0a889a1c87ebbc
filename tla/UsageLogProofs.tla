---------------------------- MODULE UsageLogProofs ----------------------------
(***************************************************************************)
(* Proofs about the usage log, for any set of records, any queue, buffer,  *)
(* rotation and retention, and any number of days and starts:              *)
(*   LoggedOnce, when a crash leaves whole lines;                          *)
(*   RecordedStaysCounted, across orderly restarts;                        *)
(*   DurableCounted, as long as the store writes to one file.              *)
(***************************************************************************)
EXTENDS UsageLog, FiniteSetTheorems, TLAPS

(* Zenon finds the proof of a leaf that does not name a prover.            *)
USE Zenon

-----------------------------------------------------------------------------
(* Sequences without repetition *)

Elems(s) == {s[i] : i \in 1..Len(s)}
Distinct(s) == \A i, j \in 1..Len(s) : s[i] = s[j] => i = j

(* Putting a new element at the end. *)
LEMMA AppendFacts ==
  ASSUME NEW S, NEW s \in Seq(S), NEW e \in S
  PROVE  /\ Append(s, e) \in Seq(S) /\ Elems(Append(s, e)) = Elems(s) \cup {e}
         /\ Distinct(s) /\ e \notin Elems(s) => Distinct(Append(s, e))
<1> DEFINE t == Append(s, e)
           n == Len(s)
<1>1. n \in Nat /\ t \in Seq(S) /\ Len(t) = n + 1 /\ t[n + 1] = e /\ \A i \in 1..n : t[i] = s[i]
  BY SMT
<1> HIDE DEF t, n
<1>2. \A i \in 1..(n + 1) : i \in 1..n \/ i = n + 1
  BY SMT, <1>1
<1>3. n + 1 \in 1..(n + 1) /\ \A i \in 1..n : i \in 1..(n + 1)
  BY SMT, <1>1
<1>4. Elems(t) \subseteq Elems(s) \cup {e}
  BY <1>1, <1>2 DEF Elems, n
<1>5. Elems(s) \cup {e} \subseteq Elems(t)
  BY <1>1, <1>3 DEF Elems, n
<1>6. ASSUME Distinct(s), e \notin Elems(s) PROVE Distinct(t)
  <2> SUFFICES ASSUME NEW i \in 1..(n + 1), NEW j \in 1..(n + 1), t[i] = t[j] PROVE i = j
    BY <1>1 DEF Distinct
  <2>1. \A k \in 1..n : t[k] # e
    BY <1>1, <1>6 DEF Elems, n
  <2> QED
    BY <1>1, <1>2, <1>6, <2>1 DEF Distinct, n
<1> QED
  BY <1>1, <1>4, <1>5, <1>6 DEF t

(* Taking the first element away. *)
LEMMA TailFacts ==
  ASSUME NEW S, NEW s \in Seq(S), s # << >>
  PROVE  /\ Head(s) \in S /\ Head(s) \in Elems(s)
         /\ Tail(s) \in Seq(S) /\ Elems(Tail(s)) \subseteq Elems(s)
         /\ Distinct(s) => Distinct(Tail(s)) /\ Head(s) \notin Elems(Tail(s))
<1> DEFINE t == Tail(s)
           n == Len(s)
<1>1. /\ n \in Nat /\ n >= 1 /\ Head(s) = s[1] /\ t \in Seq(S) /\ Len(t) = n - 1
      /\ \A i \in 1..(n - 1) : t[i] = s[i + 1]
  BY SMT
<1> HIDE DEF t, n
<1>2. 1 \in 1..n /\ \A i \in 1..(n - 1) : i + 1 \in 1..n /\ i + 1 # 1
  BY SMT, <1>1
<1>3. Head(s) \in Elems(s) /\ Head(s) \in S
  BY SMT, <1>1, <1>2 DEF Elems, n
<1>4. Elems(t) \subseteq Elems(s)
  BY SMT, <1>1, <1>2 DEF Elems, n
<1>5. ASSUME Distinct(s) PROVE Distinct(t) /\ Head(s) \notin Elems(t)
  <2>1. \A i \in 1..(n - 1) : t[i] # s[1]
    BY <1>1, <1>2, <1>5 DEF Distinct, n
  <2>2. \A i, j \in 1..(n - 1) : t[i] = t[j] => i + 1 = j + 1
    BY SMT, <1>1, <1>2, <1>5 DEF Distinct, n
  <2>3. \A i, j \in 1..(n - 1) : i + 1 = j + 1 => i = j
    BY SMT, <1>1
  <2> QED
    BY SMT, <1>1, <2>1, <2>2, <2>3 DEF Distinct, Elems
<1> QED
  BY <1>1, <1>3, <1>4, <1>5 DEF t

(* A part of a sequence from its beginning. *)
LEMMA PrefixFacts ==
  ASSUME NEW S, NEW s \in Seq(S), NEW n \in 0..Len(s)
  PROVE  LET t == SubSeq(s, 1, n)
         IN  /\ t \in Seq(S) /\ Elems(t) \subseteq Elems(s)
             /\ Distinct(s) => Distinct(t)
<1> DEFINE t == SubSeq(s, 1, n)
<1>1. Len(s) \in Nat /\ n \in Nat /\ t \in Seq(S) /\ Len(t) = n /\ \A i \in 1..n : t[i] = s[i]
  BY SMT
<1> HIDE DEF t
<1>2. \A i \in 1..n : i \in 1..Len(s)
  BY SMT, <1>1
<1>3. Elems(t) \subseteq Elems(s)
  BY <1>1, <1>2 DEF Elems
<1>4. Distinct(s) => Distinct(t)
  BY <1>1, <1>2 DEF Distinct
<1> QED
  BY <1>1, <1>3, <1>4 DEF t

-----------------------------------------------------------------------------
(* The records in the files *)

(* r is on a line of some file of f. *)
Holds(f, r) == \E p \in Paths : \E i \in 1..Len(f[p]) : f[p][i] = r

(* No record is on two lines. *)
Once(f) ==
  \A p, q \in Paths : \A i \in 1..Len(f[p]), j \in 1..Len(f[q]) :
    f[p][i] = f[q][j] => p = q /\ i = j

(* A file is not older than the records on its lines. *)
Dated(d, f, m) == \A p \in Paths : \A i \in 1..Len(f[p]) : d[f[p][i]] <= m[p]

LogTypes ==
  /\ TornWrites = FALSE
  /\ today \in Days /\ day \in [Records -> Days]
  /\ stage \in [Records -> {"new", "finished", "counted", "queued", "dropped", "gone"}]
  /\ queue \in Seq(Records) /\ batch \in Seq(Records) /\ buffered \in Seq(Records)
  /\ path \in Paths \cup {NoPath} /\ part \in Nat
  /\ files \in [Paths -> Seq(Records)] /\ modified \in [Paths -> Days]
  /\ synced \subseteq Records
  /\ pc # "append" \/ path = NoPath => buffered = << >>

(* Each record is at one place: in the queue, in the batch, in the buffer  *)
(* or on one line; and it has been queued if it is at any.                 *)
Placed ==
  /\ Distinct(queue) /\ Distinct(batch) /\ Distinct(buffered) /\ Once(files)
  /\ \A r \in Elems(queue) : r \notin Elems(batch) /\ r \notin Elems(buffered) /\ ~Holds(files, r)
  /\ \A r \in Elems(batch) : r \notin Elems(buffered) /\ ~Holds(files, r)
  /\ \A r \in Elems(buffered) : ~Holds(files, r)
  /\ \A r \in Records :
       \/ r \in Elems(queue) \/ r \in Elems(batch) \/ r \in Elems(buffered)
       \/ Holds(files, r) \/ r \in synced
       => stage[r] = "queued"

(* What was synced is on a line until it is too old; no record finishes    *)
(* later than today, and no file is older than what is on its lines.       *)
Kept ==
  /\ \A r \in Records : day[r] <= today
  /\ Dated(day, files, modified)
  /\ \A r \in synced : today - RetentionDays <= day[r] => Holds(files, r)

LogInv == LogTypes /\ Placed /\ Kept

(* What writing some of the buffered lines does to the files. *)
Written(f, m, s) ==
  /\ f \in [Paths -> Seq(Records)] /\ m \in [Paths -> Days]
  /\ Once(f) /\ Dated(day, f, m)
  /\ \A r \in Records : Holds(files, r) => Holds(f, r)
  /\ \A r \in Records : Holds(f, r) => Holds(files, r) \/ r \in Elems(buffered)
  /\ synced \subseteq s
  /\ \A r \in s : r \in synced \/ (r \in Elems(buffered) /\ Holds(f, r))

(* No file has the empty path.                                             *)
LEMMA NoPathIsNone == NoPath \notin Paths
<1>1. \A p \in Paths : p[2] \in 1..MaxPart
  BY DEF Paths
<1>2. NoPath[2] = 0 /\ 0 \notin 1..MaxPart
  BY SMT, LogAssumption DEF NoPath
<1> QED
  BY <1>1, <1>2

(* Writing lines of the buffer leaves every file right, with them in it.   *)
LEMMA WriteOK ==
  ASSUME LogInv, NEW lines \in Seq(Records), Distinct(lines), Elems(lines) \subseteq Elems(buffered),
         Write(lines)
  PROVE  /\ Written(files', modified', synced)
         /\ \A r \in Elems(lines) : Holds(files', r)
<1> USE DEF LogInv
<1>1. CASE lines = << >>
  <2>1. files' = files /\ modified' = modified /\ Elems(lines) = {}
    BY SMT, <1>1 DEF Write, Elems
  <2> QED
    BY <2>1 DEF Written, LogTypes, Placed, Kept
<1>2. CASE lines # << >>
  <2>1. path \in Paths
    <3>1. Len(lines) >= 1
      BY SMT, <1>2
    <3>2. lines[1] \in Elems(lines)
      BY SMT, <3>1 DEF Elems
    <3>3. buffered # << >>
      BY SMT, <3>2 DEF Elems
    <3> QED
      BY <3>3 DEF LogTypes
  <2> DEFINE old == files[path]
             new == old \o lines
             n == Len(old)
             k == Len(lines)
  <2>2. /\ old \in Seq(Records) /\ n \in Nat /\ k \in Nat /\ new \in Seq(Records) /\ Len(new) = n + k
        /\ \A i \in 1..n : new[i] = old[i]
        /\ \A i \in 1..k : new[n + i] = lines[i]
    BY SMT, <2>1 DEF LogTypes
  <2>3. Extended(old, lines) = new
    <3>1. old # << >> => old[Len(old)] \in Records
      BY SMT, <2>2
    <3>2. old # << >> => old[Len(old)] # Torn
      BY <3>1, LogAssumption
    <3> QED
      BY <3>2 DEF Extended
  <2>4. files' = [files EXCEPT ![path] = new] /\ modified' = [modified EXCEPT ![path] = today]
    BY <1>2, <2>3 DEF Write
  <2> HIDE DEF new, old, n, k
  <2>5. /\ files' \in [Paths -> Seq(Records)] /\ modified' \in [Paths -> Days]
        /\ files'[path] = new /\ \A p \in Paths \ {path} : files'[p] = files[p]
        /\ modified'[path] = today /\ \A p \in Paths \ {path} : modified'[p] = modified[p]
    BY <2>1, <2>2, <2>4 DEF LogTypes
  <2>6. \A i \in 1..(n + k) : i \in 1..n \/ (i - n \in 1..k /\ i = n + (i - n))
    BY SMT, <2>2
  <2>7. \A i \in 1..(n + k) : \/ i \in 1..n /\ new[i] = old[i]
                              \/ i - n \in 1..k /\ new[i] = lines[i - n]
    BY <2>2, <2>6
  <2>8. \A i \in 1..n : i \in 1..(n + k)
    BY SMT, <2>2
  <2>9. \A i \in 1..k : n + i \in 1..(n + k)
    BY SMT, <2>2
  <2>10. \A r \in Elems(lines) : Holds(files', r)
    BY SMT, <2>1, <2>2, <2>5, <2>9 DEF Holds, Elems, k
  <2>11. \A r \in Records : Holds(files, r) => Holds(files', r)
    <3> SUFFICES ASSUME NEW p \in Paths, NEW i \in 1..Len(files[p])
                 PROVE  \E q \in Paths : \E j \in 1..Len(files'[q]) : files'[q][j] = files[p][i]
      BY SMT DEF Holds
    <3>1. CASE p = path
      <4>1. i \in 1..n /\ files[p][i] = old[i]
        BY <3>1 DEF n, old
      <4> QED
        BY <2>1, <2>2, <2>5, <2>8, <4>1
    <3>2. CASE p # path
      BY <2>5, <3>2
    <3> QED
      BY <3>1, <3>2
  <2>12. \A r \in Records : Holds(files', r) => Holds(files, r) \/ r \in Elems(lines)
    <3> SUFFICES ASSUME NEW p \in Paths, NEW i \in 1..Len(files'[p])
                 PROVE  Holds(files, files'[p][i]) \/ files'[p][i] \in Elems(lines)
      BY DEF Holds
    <3>1. CASE p = path
      <4>1. i \in 1..(n + k) /\ files'[p][i] = new[i]
        BY <2>2, <2>5, <3>1
      <4>2. CASE i \in 1..n /\ new[i] = old[i]
        BY <2>1, <4>1, <4>2 DEF Holds, n, old
      <4>3. CASE i - n \in 1..k /\ new[i] = lines[i - n]
        BY <4>1, <4>3 DEF Elems, k
      <4> QED
        BY <2>7, <4>1, <4>2, <4>3
    <3>2. CASE p # path
      BY <2>5, <3>2 DEF Holds
    <3> QED
      BY <3>1, <3>2
  <2>13. \A i \in 1..k : lines[i] \in Elems(lines) /\ ~Holds(files, lines[i])
    BY DEF Placed, Elems, k
  <2>14. \A i, j \in 1..(n + k) : new[i] = new[j] => i = j
    <3> SUFFICES ASSUME NEW i \in 1..(n + k), NEW j \in 1..(n + k), new[i] = new[j]
                 PROVE  i = j
      OBVIOUS
    <3>1. \A a \in 1..n : Holds(files, old[a])
      BY <2>1 DEF Holds, n, old
    <3>2. CASE i \in 1..n /\ j \in 1..n
      BY SMT, <2>1, <2>2, <3>2 DEF Placed, Once, n, old
    <3>3. CASE i - n \in 1..k /\ j - n \in 1..k /\ new[i] = lines[i - n] /\ new[j] = lines[j - n]
      <4>1. i - n = j - n
        BY <3>3 DEF Distinct, k
      <4> QED
        BY SMT, <2>2, <4>1
    <3> QED
      BY SMT, <2>2, <2>7, <2>13, <3>1, <3>2, <3>3
  <2>15. Once(files')
    <3> SUFFICES ASSUME NEW p \in Paths, NEW q \in Paths,
                        NEW i \in 1..Len(files'[p]), NEW j \in 1..Len(files'[q]),
                        files'[p][i] = files'[q][j]
                 PROVE  p = q /\ i = j
      BY DEF Once
    <3>1. CASE p = path /\ q = path
      BY <2>2, <2>5, <2>14, <3>1
    <3>2. CASE p # path /\ q # path
      <4>1. files'[p] = files[p] /\ files'[q] = files[q]
        BY <2>5, <3>2
      <4>2. i \in 1..Len(files[p]) /\ j \in 1..Len(files[q]) /\ files[p][i] = files[q][j]
        BY <4>1
      <4>3. Once(files)
        BY DEF Placed
      <4> QED
        BY <4>2, <4>3 DEF Once
    <3>3. ASSUME NEW x \in Paths \ {path}, NEW a \in 1..(n + k), NEW b \in 1..Len(files[x])
          PROVE  new[a] # files[x][b]
      <4>1. Holds(files, files[x][b])
        BY DEF Holds
      <4>2. CASE a \in 1..n /\ new[a] = old[a]
        BY SMT, <2>1, <4>2 DEF Placed, Once, n, old
      <4>3. CASE a - n \in 1..k /\ new[a] = lines[a - n]
        BY <2>13, <4>1, <4>3
      <4> QED
        BY <2>7, <4>2, <4>3
    <3>4. CASE p = path /\ q # path
      <4>1. files'[p] = new /\ files'[q] = files[q] /\ q \in Paths \ {path}
        BY <2>5, <3>4
      <4>2. i \in 1..(n + k) /\ j \in 1..Len(files[q])
        BY <2>2, <4>1
      <4>3. new[i] # files[q][j]
        BY <3>3, <4>1, <4>2
      <4> QED
        BY <4>1, <4>3
    <3>5. CASE p # path /\ q = path
      <4>1. files'[q] = new /\ files'[p] = files[p] /\ p \in Paths \ {path}
        BY <2>5, <3>5
      <4>2. j \in 1..(n + k) /\ i \in 1..Len(files[p])
        BY <2>2, <4>1
      <4>3. new[j] # files[p][i]
        BY <3>3, <4>1, <4>2
      <4> QED
        BY <4>1, <4>3
    <3> QED
      BY <3>1, <3>2, <3>4, <3>5
  <2>16. Dated(day, files', modified')
    <3> SUFFICES ASSUME NEW p \in Paths, NEW i \in 1..Len(files'[p])
                 PROVE  day[files'[p][i]] <= modified'[p]
      BY DEF Dated
    <3>1. CASE p = path
      <4>1. i \in 1..(n + k)
        BY <2>2, <2>5, <3>1
      <4>2. new[i] \in Records
        BY SMT, <2>2, <4>1
      <4> QED
        BY <2>5, <3>1, <4>2 DEF Kept
    <3>2. CASE p # path
      BY <2>5, <3>2 DEF Kept, Dated
    <3> QED
      BY <3>1, <3>2
  <2> QED
    BY <2>5, <2>10, <2>11, <2>12, <2>15, <2>16 DEF Written
<1> QED
  BY <1>1, <1>2

(* Leaving the files alone. *)
LEMMA SameOK ==
  ASSUME LogInv, UNCHANGED <<files, modified, synced>>
  PROVE  Written(files', modified', synced')
BY DEF LogInv, LogTypes, Placed, Kept, Written

(* flushWriter: all of the buffer, or nothing. *)
LEMMA FlushOK ==
  ASSUME LogInv, Flush
  PROVE  Written(files', modified', synced')
<1>1. CASE path = NoPath \/ broken
  BY <1>1, SameOK DEF Flush
<1>2. CASE ~(path = NoPath \/ broken)
  <2>1. Write(buffered) /\ synced' = synced \cup Elems(buffered)
    BY <1>2 DEF Flush, Elems
  <2>2. buffered \in Seq(Records) /\ Distinct(buffered) /\ synced \subseteq Records
    BY DEF LogInv, LogTypes, Placed
  <2>3. Written(files', modified', synced) /\ \A r \in Elems(buffered) : Holds(files', r)
    BY <2>1, <2>2, WriteOK
  <2> QED
    BY <2>1, <2>2, <2>3 DEF Written
<1> QED
  BY <1>1, <1>2

(* A failed write, or the end of the process: some of the buffer. *)
LEMMA PartOK ==
  ASSUME LogInv, \E lines \in IF broken THEN {<< >>} ELSE Prefixes(buffered) : Write(lines),
         synced' = synced
  PROVE  Written(files', modified', synced')
<1>1. buffered \in Seq(Records) /\ Distinct(buffered) /\ TornWrites = FALSE
  BY DEF LogInv, LogTypes, Placed
<1>2. PICK lines \in IF broken THEN {<< >>} ELSE Prefixes(buffered) : Write(lines)
  OBVIOUS
<1>3. lines \in Seq(Records) /\ Distinct(lines) /\ Elems(lines) \subseteq Elems(buffered)
  <2>1. CASE broken
    BY SMT, <1>2, <2>1 DEF Distinct, Elems
  <2>2. CASE ~broken
    <3>1. PICK n \in 0..Len(buffered) : lines = SubSeq(buffered, 1, n)
      BY <1>1, <1>2, <2>2 DEF Prefixes
    <3> QED
      BY <1>1, <3>1, PrefixFacts
  <2> QED
    BY <2>1, <2>2
<1> QED
  BY <1>2, <1>3, WriteOK

-----------------------------------------------------------------------------
(* The steps *)

(* Records move from the queue to the batch and on to the buffer. *)
LEMMA MoveOK ==
  ASSUME LogInv, Written(files', modified', synced'), UNCHANGED <<today, day>>,
         stage' \in [Records -> {"new", "finished", "counted", "queued", "dropped", "gone"}],
         \A r \in Records : stage[r] = "queued" => stage'[r] = "queued",
         queue' \in Seq(Records), batch' \in Seq(Records), buffered' \in Seq(Records),
         Distinct(queue'), Distinct(batch'), Distinct(buffered'),
         path' \in Paths \cup {NoPath}, part' \in Nat,
         pc' # "append" \/ path' = NoPath => buffered' = << >>,
         \A r \in Elems(queue') : \/ r \in Elems(queue)
                                  \/ stage[r] # "queued" /\ stage'[r] = "queued",
         Elems(batch') \subseteq Elems(queue) \cup Elems(batch),
         Elems(buffered') \subseteq Elems(batch) \cup Elems(buffered),
         Elems(queue') \cap Elems(batch') = {}, Elems(batch') \cap Elems(buffered') = {},
         files' = files \/ Elems(buffered') \cap Elems(buffered) = {}
  PROVE  LogInv'
<1> DEFINE Q == Elems(queue)
           B == Elems(batch)
           U == Elems(buffered)
<1>1. Q \subseteq Records /\ B \subseteq Records /\ U \subseteq Records
  BY SMT DEF LogInv, LogTypes, Elems
<1>2. Q' \subseteq Records /\ B' \subseteq Records /\ U' \subseteq Records
  BY SMT DEF Elems
<1>3. LogTypes'
  <2>1. synced' \subseteq Records
    BY <1>1 DEF LogInv, LogTypes, Written
  <2> QED
    BY <2>1 DEF LogInv, LogTypes, Written
<1>4. Kept'
  BY DEF LogInv, LogTypes, Kept, Written, Dated
<1>5. \A r \in Q : r \notin B /\ r \notin U /\ ~Holds(files, r) /\ stage[r] = "queued"
  BY <1>1 DEF LogInv, Placed
<1>6. \A r \in B : r \notin U /\ ~Holds(files, r) /\ stage[r] = "queued"
  BY <1>1 DEF LogInv, Placed
<1>7. \A r \in U : ~Holds(files, r) /\ stage[r] = "queued"
  BY <1>1 DEF LogInv, Placed
<1>8. \A r \in Records : Holds(files, r) \/ r \in synced => stage[r] = "queued"
  BY DEF LogInv, Placed
<1>9. \A r \in Records : Holds(files', r) => Holds(files, r) \/ r \in U
  BY DEF Written
<1>10. \A r \in Q' : r \notin B' /\ r \notin U' /\ ~Holds(files', r) /\ stage'[r] = "queued"
  BY <1>1, <1>2, <1>5, <1>6, <1>7, <1>8, <1>9
<1>11. \A r \in B' : r \notin U' /\ ~Holds(files', r) /\ stage'[r] = "queued"
  BY <1>1, <1>2, <1>5, <1>6, <1>9
<1>12. \A r \in U' : ~Holds(files', r) /\ stage'[r] = "queued"
  BY <1>1, <1>2, <1>6, <1>7, <1>9
<1>13. \A r \in Records : Holds(files', r) \/ r \in synced' => stage'[r] = "queued"
  BY <1>1, <1>7, <1>8, <1>9 DEF Written
<1>14. Once(files')
  BY DEF Written
<1> HIDE DEF Q, B, U
<1>15. Placed'
  BY <1>10, <1>11, <1>12, <1>13, <1>14 DEF Placed, Q, B, U
<1> QED
  BY <1>3, <1>4, <1>15 DEF LogInv

(* Steps that leave the log alone. *)
LEMMA IdleOK ==
  ASSUME LogInv, UNCHANGED <<today, day, files, modified, synced, queue, batch, buffered, path, part>>,
         stage' \in [Records -> {"new", "finished", "counted", "queued", "dropped", "gone"}],
         \A r \in Records : stage[r] = "queued" => stage'[r] = "queued",
         pc = "append" => buffered = << >> \/ pc' = "append"
  PROVE  LogInv'
<1>1. Written(files', modified', synced')
  BY SameOK
<1>2. Elems(queue') \cap Elems(batch') = {} /\ Elems(batch') \cap Elems(buffered') = {}
  BY DEF LogInv, Placed
<1>3. /\ queue' \in Seq(Records) /\ batch' \in Seq(Records) /\ buffered' \in Seq(Records)
      /\ Distinct(queue') /\ Distinct(batch') /\ Distinct(buffered')
      /\ path' \in Paths \cup {NoPath} /\ part' \in Nat
      /\ pc' # "append" \/ path' = NoPath => buffered' = << >>
  BY DEF LogInv, LogTypes, Placed
<1> QED
  BY <1>1, <1>2, <1>3, MoveOK

(* finalizeUsageRecord dates a record that is nowhere yet. *)
LEMMA FinishOK ==
  ASSUME LogInv, NEW r \in Records, Finish(r)
  PROVE  LogInv'
<1> USE DEF LogInv
<1>1. /\ stage[r] = "new" /\ stage' = [stage EXCEPT ![r] = "finished"] /\ day' = [day EXCEPT ![r] = today]
      /\ UNCHANGED <<today, files, modified, synced, queue, batch, buffered, path, part, pc>>
  BY DEF Finish, fileVars, memVars, diskVars
<1>2. stage[r] # "queued"
  BY <1>1
<1>3. LogTypes'
  BY <1>1 DEF LogTypes
<1>4. \A x \in Records : x # r => stage'[x] = stage[x] /\ day'[x] = day[x]
  BY <1>1 DEF LogTypes
<1>5. r \notin Elems(queue) /\ r \notin Elems(batch) /\ r \notin Elems(buffered) /\ ~Holds(files, r) /\ r \notin synced
  BY <1>2 DEF Placed
<1>6. Placed'
  BY <1>1, <1>4, <1>5 DEF Placed
<1>7. Kept'
  <2>1. \A x \in Records : day'[x] <= today'
    <3>1. day'[r] = today /\ today <= today
      BY SMT, <1>1 DEF LogTypes, Days
    <3> QED
      BY <1>1, <1>4, <3>1 DEF Kept
  <2>2. Dated(day', files', modified')
    <3> SUFFICES ASSUME NEW p \in Paths, NEW i \in 1..Len(files[p])
                 PROVE  day'[files[p][i]] <= modified[p]
      BY <1>1 DEF Dated
    <3>1. files[p][i] \in Records /\ Holds(files, files[p][i])
      BY SMT DEF LogTypes, Holds
    <3> QED
      BY <1>4, <1>5, <3>1 DEF Kept, Dated
  <2>3. \A x \in synced : x \in Records /\ x # r
    BY <1>5 DEF LogTypes
  <2>4. \A x \in synced' : today' - RetentionDays <= day'[x] => Holds(files', x)
    BY <1>1, <1>4, <2>3 DEF Kept
  <2> QED
    BY <1>1, <2>1, <2>2, <2>4 DEF Kept
<1> QED
  BY <1>3, <1>6, <1>7

(* The day changes.                                                        *)
LEMMA NextDayOK ==
  ASSUME LogInv, NextDay
  PROVE  LogInv'
<1>1. /\ today \in Days /\ today' = today + 1 /\ today < MaxDay
      /\ UNCHANGED <<stage, day, files, modified, synced, queue, batch, buffered, path, part, pc>>
  BY DEF NextDay, fileVars, memVars, diskVars, LogInv, LogTypes
<1>2. today \in Int /\ today' \in Days /\ \A n \in Int : n <= today => n <= today'
  BY SMT, <1>1, LogAssumption DEF Days
<1>3. LogTypes' /\ Placed'
  BY <1>1, <1>2 DEF LogInv, LogTypes, Placed
<1>4. Kept'
  <2>1. \A r \in Records : day[r] \in Int
    BY SMT DEF LogInv, LogTypes, Days
  <2>2. \A r \in Records : day[r] <= today'
    BY <1>2, <2>1 DEF LogInv, Kept
  <2>3. RetentionDays \in Int /\ \A n \in Int : today' - RetentionDays <= n => today - RetentionDays <= n
    BY SMT, <1>1, <1>2, LogAssumption
  <2>4. \A r \in synced : today' - RetentionDays <= day[r] => Holds(files, r)
    BY <2>1, <2>3 DEF LogInv, LogTypes, Kept
  <2> QED
    BY <1>1, <2>2, <2>4 DEF LogInv, Kept, Dated
<1> QED
  BY <1>3, <1>4 DEF LogInv

(* cleanupExpired removes only files that are older than the retention,    *)
(* and a file is not older than the records it holds.                      *)
LEMMA CleanupOK ==
  ASSUME LogInv, Cleanup
  PROVE  LogInv'
<1> USE DEF LogInv
<1> DEFINE Old(p) == modified[p] < today - RetentionDays /\ p # cursor.path
<1>1. /\ pc = "cleanup" /\ pc' # "append" /\ path' \in {path, NoPath}
      /\ files' = [p \in Paths |-> IF Old(p) THEN << >> ELSE files[p]]
      /\ UNCHANGED <<today, stage, day, modified, synced, queue, batch, buffered, part>>
  BY DEF Cleanup, memVars
<1>2. buffered = << >>
  BY <1>1 DEF LogTypes
<1>3. \A p \in Paths : files'[p] = files[p] \/ (Old(p) /\ files'[p] = << >>)
  BY <1>1
<1>4. \A p \in Paths : \A i \in 1..Len(files'[p]) :
        files'[p] = files[p] /\ i \in 1..Len(files[p])
  BY SMT, <1>3
<1>5. LogTypes'
  <2>1. files' \in [Paths -> Seq(Records)]
    BY <1>1 DEF LogTypes
  <2> QED
    BY <1>1, <1>2, <2>1 DEF LogTypes
<1>6. \A r : Holds(files', r) => Holds(files, r)
  BY <1>4 DEF Holds
<1>7. Once(files') /\ Dated(day, files', modified)
  <2>1. Once(files) /\ Dated(day, files, modified)
    BY DEF Placed, Kept
  <2>2. Once(files')
    <3> SUFFICES ASSUME NEW p \in Paths, NEW q \in Paths,
                        NEW i \in 1..Len(files'[p]), NEW j \in 1..Len(files'[q]),
                        files'[p][i] = files'[q][j]
                 PROVE  p = q /\ i = j
      BY DEF Once
    <3>1. i \in 1..Len(files[p]) /\ j \in 1..Len(files[q]) /\ files[p][i] = files[q][j]
      BY <1>4
    <3> QED
      BY <2>1, <3>1 DEF Once
  <2>3. Dated(day, files', modified)
    BY <1>4, <2>1 DEF Dated
  <2> QED
    BY <2>2, <2>3
<1>8. Placed'
  BY <1>1, <1>6, <1>7 DEF Placed
<1>9. ASSUME NEW r \in synced, today - RetentionDays <= day[r]
      PROVE  Holds(files', r)
  <2>1. PICK p \in Paths : \E i \in 1..Len(files[p]) : files[p][i] = r
    BY <1>9 DEF Kept, Holds
  <2>2. PICK i \in 1..Len(files[p]) : files[p][i] = r
    BY <2>1
  <2>3. day[r] <= modified[p]
    BY <2>2 DEF Kept, Dated
  <2>4. today \in Int /\ RetentionDays \in Int /\ day[r] \in Int /\ modified[p] \in Int
    BY SMT, LogAssumption DEF LogTypes, Days
  <2>5. ~(modified[p] < today - RetentionDays)
    BY SMT, <1>9, <2>3, <2>4
  <2> QED
    BY <1>3, <2>2, <2>5 DEF Holds
<1>10. Kept'
  <2>1. Dated(day', files', modified')
    BY <1>1, <1>7 DEF Dated
  <2> QED
    BY <1>1, <1>9, <2>1 DEF Kept
<1> QED
  BY <1>5, <1>8, <1>10

(* The empty buffer.                                                       *)
LEMMA EmptyFacts == << >> \in Seq(Records) /\ Elems(<< >>) = {} /\ Distinct(<< >>)
BY SMT DEF Elems, Distinct

(* A request hands its record over.                                        *)
LEMMA EnqueueOK ==
  ASSUME LogInv, NEW r \in Records, Enqueue(r)
  PROVE  LogInv'
<1>1. /\ stage[r] = "counted" /\ stage[r] # "queued"
      /\ UNCHANGED <<today, day, files, modified, synced, batch, buffered, path, part, pc>>
  BY DEF Enqueue, fileVars, diskVars
<1>2. CASE Len(queue) < QueueSize
  <2>1. queue' = Append(queue, r) /\ stage' = [stage EXCEPT ![r] = "queued"]
    BY <1>2 DEF Enqueue
  <2>2. /\ queue \in Seq(Records) /\ Distinct(queue) /\ r \notin Elems(queue) /\ r \notin Elems(batch)
        /\ stage \in [Records -> {"new", "finished", "counted", "queued", "dropped", "gone"}]
        /\ \A x \in Elems(queue) : x \notin Elems(batch)
        /\ \A x \in Elems(batch) : x \notin Elems(buffered)
    BY <1>1 DEF LogInv, LogTypes, Placed
  <2>3. queue' \in Seq(Records) /\ Distinct(queue') /\ Elems(queue') = Elems(queue) \cup {r}
    BY SMT, <2>1, <2>2, AppendFacts
  <2>4. /\ stage' \in [Records -> {"new", "finished", "counted", "queued", "dropped", "gone"}]
        /\ stage'[r] = "queued" /\ \A x \in Records : stage[x] = "queued" => stage'[x] = "queued"
    BY <2>1, <2>2
  <2>5. Written(files', modified', synced')
    BY <1>1, SameOK
  <2>6. /\ batch' \in Seq(Records) /\ buffered' \in Seq(Records) /\ Distinct(batch') /\ Distinct(buffered')
        /\ path' \in Paths \cup {NoPath} /\ part' \in Nat
        /\ pc' # "append" \/ path' = NoPath => buffered' = << >>
    BY <1>1 DEF LogInv, LogTypes, Placed
  <2>7. Elems(queue') \cap Elems(batch') = {} /\ Elems(batch') \cap Elems(buffered') = {}
    BY <1>1, <2>2, <2>3
  <2> QED
    BY <1>1, <2>3, <2>4, <2>5, <2>6, <2>7, MoveOK
<1>3. CASE ~(Len(queue) < QueueSize)
  <2>1. queue' = queue /\ stage' = [stage EXCEPT ![r] = "dropped"]
    BY <1>3 DEF Enqueue
  <2>2. /\ stage' \in [Records -> {"new", "finished", "counted", "queued", "dropped", "gone"}]
        /\ \A x \in Records : stage[x] = "queued" => stage'[x] = "queued"
    BY <1>1, <2>1 DEF LogInv, LogTypes
  <2> QED
    BY <1>1, <2>1, <2>2, IdleOK
<1> QED
  BY <1>2, <1>3

(* The writer takes a record from the channel.                             *)
LEMMA ReceiveOK ==
  ASSUME LogInv, Receive
  PROVE  LogInv'
<1>1. /\ pc = "select" /\ queue # << >> /\ batch' = Append(batch, Head(queue)) /\ queue' = Tail(queue)
      /\ UNCHANGED <<today, stage, day, files, modified, synced, buffered, path, part>>
  BY DEF Receive, fileVars, diskVars
<1>2. /\ queue \in Seq(Records) /\ batch \in Seq(Records) /\ Distinct(queue) /\ Distinct(batch)
      /\ buffered = << >> /\ \A x \in Elems(queue) : x \notin Elems(batch)
  BY <1>1 DEF LogInv, LogTypes, Placed
<1>3. /\ Head(queue) \in Records /\ Head(queue) \in Elems(queue) /\ queue' \in Seq(Records)
      /\ Elems(queue') \subseteq Elems(queue) /\ Distinct(queue') /\ Head(queue) \notin Elems(queue')
  BY <1>1, <1>2, TailFacts
<1>4. /\ batch' \in Seq(Records) /\ Distinct(batch') /\ Elems(batch') = Elems(batch) \cup {Head(queue)}
  BY SMT, <1>1, <1>2, <1>3, AppendFacts
<1>5. Written(files', modified', synced')
  BY <1>1, SameOK
<1>6. Elems(queue') \cap Elems(batch') = {}
  BY <1>2, <1>3, <1>4
<1>7. /\ stage' \in [Records -> {"new", "finished", "counted", "queued", "dropped", "gone"}]
      /\ path' \in Paths \cup {NoPath} /\ part' \in Nat
  BY <1>1 DEF LogInv, LogTypes
<1> QED
  BY <1>1, <1>2, <1>3, <1>4, <1>5, <1>6, <1>7, EmptyFacts, MoveOK

(* What a step of the append loop finds. *)
LEMMA BatchFacts ==
  ASSUME LogInv, batch # << >>
  PROVE  /\ Head(batch) \in Records /\ Head(batch) \in Elems(batch) /\ Tail(batch) \in Seq(Records)
         /\ Elems(Tail(batch)) \subseteq Elems(batch) /\ Distinct(Tail(batch))
         /\ Head(batch) \notin Elems(Tail(batch)) /\ Head(batch) \notin Elems(buffered)
         /\ \A x \in Elems(batch) : x \notin Elems(buffered)
         /\ \A x \in Elems(queue) : x \notin Elems(batch)
<1>1. batch \in Seq(Records) /\ Distinct(batch)
  BY DEF LogInv, LogTypes, Placed
<1>2. /\ Head(batch) \in Records /\ Head(batch) \in Elems(batch) /\ Tail(batch) \in Seq(Records)
      /\ Elems(Tail(batch)) \subseteq Elems(batch) /\ Distinct(Tail(batch))
      /\ Head(batch) \notin Elems(Tail(batch))
  BY <1>1, TailFacts
<1> QED
  BY <1>2 DEF LogInv, Placed

(* The record goes to the file that is open.                               *)
LEMMA AppendHereOK ==
  ASSUME LogInv, AppendHere
  PROVE  LogInv'
<1>1. /\ pc = "append" /\ pc' = "append" /\ batch # << >> /\ path # NoPath
      /\ buffered' = Append(buffered, Head(batch)) /\ batch' = Tail(batch)
      /\ UNCHANGED <<today, stage, day, files, modified, synced, queue, path, part>>
  BY DEF AppendHere, diskVars, MustRotate
<1>2. /\ Head(batch) \in Records /\ Head(batch) \in Elems(batch) /\ batch' \in Seq(Records)
      /\ Elems(batch') \subseteq Elems(batch) /\ Distinct(batch')
      /\ Head(batch) \notin Elems(batch') /\ Head(batch) \notin Elems(buffered)
      /\ \A x \in Elems(batch) : x \notin Elems(buffered)
      /\ \A x \in Elems(queue) : x \notin Elems(batch)
  BY <1>1, BatchFacts
<1>3. buffered \in Seq(Records) /\ Distinct(buffered)
  BY DEF LogInv, LogTypes, Placed
<1>4. /\ buffered' \in Seq(Records) /\ Distinct(buffered')
      /\ Elems(buffered') = Elems(buffered) \cup {Head(batch)}
  BY SMT, <1>1, <1>2, <1>3, AppendFacts
<1>5. Written(files', modified', synced')
  BY <1>1, SameOK
<1>6. Elems(queue') \cap Elems(batch') = {} /\ Elems(batch') \cap Elems(buffered') = {}
  BY <1>1, <1>2, <1>4
<1>7. /\ stage' \in [Records -> {"new", "finished", "counted", "queued", "dropped", "gone"}]
      /\ queue' \in Seq(Records) /\ Distinct(queue') /\ path' \in Paths /\ part' \in Nat
  BY <1>1 DEF LogInv, LogTypes, Placed
<1>8. Elems(buffered') \subseteq Elems(batch) \cup Elems(buffered)
  BY <1>2, <1>4
<1> QED
  BY <1>1, <1>2, <1>4, <1>5, <1>6, <1>7, <1>8, MoveOK

(* Emptying the buffer, and perhaps the batch and the queue. *)
LEMMA EmptiedOK ==
  ASSUME LogInv, Written(files', modified', synced'), UNCHANGED <<today, day>>,
         stage' \in [Records -> {"new", "finished", "counted", "queued", "dropped", "gone"}],
         \A r \in Records : stage[r] = "queued" => stage'[r] = "queued",
         queue' \in {queue, << >>}, batch' \in {batch, << >>}, buffered' = << >>,
         path' \in Paths \cup {NoPath}, part' \in Nat
  PROVE  LogInv'
<1>1. /\ queue' \in Seq(Records) /\ batch' \in Seq(Records) /\ buffered' \in Seq(Records)
      /\ Distinct(queue') /\ Distinct(batch') /\ Distinct(buffered')
  BY EmptyFacts DEF LogInv, LogTypes, Placed
<1>2. /\ Elems(queue') \subseteq Elems(queue) /\ Elems(batch') \subseteq Elems(batch)
      /\ Elems(buffered') = {}
  BY EmptyFacts
<1>3. \A r \in Elems(queue) : r \notin Elems(batch)
  BY DEF LogInv, Placed
<1>4. Elems(queue') \cap Elems(batch') = {} /\ Elems(batch') \cap Elems(buffered') = {}
  BY <1>2, <1>3
<1> QED
  BY <1>1, <1>2, <1>4, MoveOK

(* The record goes to another day's file.                                  *)
LEMMA AppendElsewhereOK ==
  ASSUME LogInv, AppendElsewhere
  PROVE  LogInv'
<1> DEFINE r == Head(batch)
<1>1. /\ pc = "append" /\ pc' = "append" /\ batch # << >> /\ Flush
      /\ NextPart(r) <= MaxPart /\ path' = <<day[r], NextPart(r)>> /\ part' = NextPart(r)
      /\ buffered' = <<r>> /\ batch' = Tail(batch)
      /\ UNCHANGED <<today, stage, day, queue>>
  BY DEF AppendElsewhere
<1>2. /\ r \in Records /\ r \in Elems(batch) /\ batch' \in Seq(Records)
      /\ Elems(batch') \subseteq Elems(batch) /\ Distinct(batch')
      /\ r \notin Elems(batch') /\ r \notin Elems(buffered)
      /\ \A x \in Elems(queue) : x \notin Elems(batch)
  BY <1>1, BatchFacts
<1>3. Written(files', modified', synced')
  BY <1>1, FlushOK
<1>4. /\ stage' \in [Records -> {"new", "finished", "counted", "queued", "dropped", "gone"}]
      /\ queue' \in Seq(Records) /\ Distinct(queue') /\ part \in Nat /\ day[r] \in Days
  BY <1>1, <1>2 DEF LogInv, LogTypes, Placed
<1>5. NextPart(r) \in 1..MaxPart
  <2>1. MaxPart \in Nat /\ MaxPart >= 1
    BY SMT, LogAssumption
  <2> QED
    BY SMT, <1>1, <1>4, <2>1 DEF NextPart
<1>6. path' \in Paths /\ part' \in Nat
  BY SMT, <1>1, <1>4, <1>5 DEF Paths
<1> HIDE DEF r
<1>7. buffered' \in Seq(Records) /\ Distinct(buffered') /\ Elems(buffered') = {r}
  BY SMT, <1>1, <1>2 DEF Distinct, Elems
<1>8. Elems(queue') \cap Elems(batch') = {} /\ Elems(batch') \cap Elems(buffered') = {}
  BY <1>1, <1>2, <1>7
<1>9. /\ Elems(buffered') \subseteq Elems(batch) \cup Elems(buffered)
      /\ Elems(buffered') \cap Elems(buffered) = {}
  BY <1>2, <1>7
<1>10. path' # NoPath
  BY <1>6, NoPathIsNone
<1> QED
  BY <1>1, <1>2, <1>3, <1>4, <1>6, <1>7, <1>8, <1>9, <1>10, MoveOK

(* The errors of appendRecord, and the rest of flush. *)
LEMMA DroppedOK ==
  ASSUME LogInv, OpenFails \/ WriteFails \/ SyncBatch \/ FlushFails
  PROVE  LogInv'
<1>1. /\ stage \in [Records -> {"new", "finished", "counted", "queued", "dropped", "gone"}]
      /\ path \in Paths \cup {NoPath} /\ part \in Nat
  BY DEF LogInv, LogTypes
<1>2. CASE OpenFails
  <2>1. Written(files', modified', synced')
    BY <1>2, FlushOK DEF OpenFails
  <2>2. /\ path' = NoPath /\ part' = NextPart(Head(batch)) /\ buffered' = << >> /\ batch' = << >>
        /\ UNCHANGED <<today, stage, day, queue>>
    BY <1>2 DEF OpenFails
  <2>3. part' \in Nat
    BY SMT, <1>1, <2>2 DEF NextPart
  <2> QED
    BY <1>1, <2>1, <2>2, <2>3, EmptiedOK
<1>3. CASE WriteFails
  <2>1. Written(files', modified', synced')
    BY <1>3, PartOK DEF WriteFails
  <2> QED
    BY <1>1, <1>3, <2>1, EmptiedOK DEF WriteFails
<1>4. CASE SyncBatch
  <2>1. Written(files', modified', synced')
    BY <1>4, FlushOK DEF SyncBatch
  <2> QED
    BY <1>1, <1>4, <2>1, EmptiedOK DEF SyncBatch, memVars
<1>5. CASE FlushFails
  <2>1. Written(files', modified', synced')
    <3>1. CASE \E lines \in Prefixes(buffered) : Write(lines)
      BY <1>5, <3>1, PartOK DEF FlushFails
    <3>2. CASE Write(buffered)
      <4>1. buffered \in Seq(Records) /\ Distinct(buffered) /\ synced' = synced
        BY <1>5 DEF LogInv, LogTypes, Placed, FlushFails
      <4> QED
        BY <3>2, <4>1, WriteOK
    <3> QED
      BY <1>5, <3>1, <3>2 DEF FlushFails
  <2> QED
    BY <1>1, <1>5, <2>1, EmptiedOK DEF FlushFails, memVars
<1> QED
  BY <1>2, <1>3, <1>4, <1>5

(* The end of the process. *)
LEMMA DieOK ==
  ASSUME LogInv, Die, Written(files', modified', synced')
  PROVE  LogInv'
<1>1. stage \in [Records -> {"new", "finished", "counted", "queued", "dropped", "gone"}]
  BY DEF LogInv, LogTypes
<1>2. /\ stage' = [r \in Records |-> IF stage[r] \in {"finished", "counted"} THEN "gone" ELSE stage[r]]
      /\ queue' = << >> /\ batch' = << >> /\ buffered' = << >> /\ path' = NoPath /\ part' = 0
      /\ UNCHANGED <<today, day>>
  BY DEF Die
<1>3. /\ stage' \in [Records -> {"new", "finished", "counted", "queued", "dropped", "gone"}]
      /\ \A r \in Records : stage[r] = "queued" => stage'[r] = "queued"
  BY <1>1, <1>2
<1> QED
  BY <1>2, <1>3, EmptiedOK

(* Every step keeps the invariant.                                         *)
LEMMA LogInvStep ==
  ASSUME LogInv, [Next]_vars
  PROVE  LogInv'
<1> USE DEF memVars, fileVars, diskVars
<1>1. stage \in [Records -> {"new", "finished", "counted", "queued", "dropped", "gone"}]
  BY DEF LogInv, LogTypes
<1>2. CASE Start
  BY <1>1, <1>2, IdleOK DEF Start
<1>3. CASE FlushTick \/ QueueClosed
  BY <1>1, <1>3, IdleOK DEF FlushTick, QueueClosed
<1>4. CASE TruncateSnapshot \/ FillSnapshot \/ SnapshotFails
  BY <1>1, <1>4, IdleOK DEF TruncateSnapshot, FillSnapshot, SnapshotFails
<1>5. CASE Close
  BY <1>1, <1>5, IdleOK DEF Close
<1>6. ASSUME NEW r \in Records, Count(r)
      PROVE  LogInv'
  <2>1. /\ stage[r] = "finished" /\ stage' = [stage EXCEPT ![r] = "counted"]
        /\ UNCHANGED <<today, day, files, modified, synced, queue, batch, buffered, path, part, pc>>
    BY <1>6 DEF Count
  <2>2. /\ stage' \in [Records -> {"new", "finished", "counted", "queued", "dropped", "gone"}]
        /\ \A x \in Records : stage[x] = "queued" => stage'[x] = "queued"
    BY <1>1, <2>1
  <2> QED
    BY <2>1, <2>2, IdleOK
<1>7. CASE Exit
  <2>1. Written(files', modified', synced')
    BY <1>7, SameOK DEF Exit, Die
  <2> QED
    BY <1>7, <2>1, DieOK DEF Exit
<1>8. CASE Crash
  <2>1. Written(files', modified', synced')
    BY <1>8, PartOK DEF Crash, Die
  <2> QED
    BY <1>8, <2>1, DieOK DEF Crash
<1>9. ASSUME NEW r \in Records, SendOnClosedQueue(r)
      PROVE  LogInv'
  <2>1. Written(files', modified', synced')
    BY <1>9, PartOK DEF SendOnClosedQueue, Die
  <2> QED
    BY <1>9, <2>1, DieOK DEF SendOnClosedQueue
<1>10. CASE UNCHANGED vars
  BY <1>1, <1>10, IdleOK DEF vars
<1> QED
  BY <1>2, <1>3, <1>4, <1>5, <1>6, <1>7, <1>8, <1>9, <1>10, FinishOK, EnqueueOK, ReceiveOK,
     AppendHereOK, AppendElsewhereOK, DroppedOK, CleanupOK, NextDayOK
  DEF Next, Worker, Request

(* The invariant at the start.                                             *)
LEMMA LogInvInit ==
  ASSUME TornWrites = FALSE, Init
  PROVE  LogInv
<1>1. /\ today = 0 /\ stage = [r \in Records |-> "new"] /\ day = [r \in Records |-> 0]
      /\ queue = << >> /\ batch = << >> /\ buffered = << >> /\ path = NoPath /\ part = 0
      /\ files = [p \in Paths |-> << >>] /\ modified = [p \in Paths |-> 0] /\ synced = {}
  BY DEF Init
<1>2. 0 \in Days
  BY SMT, LogAssumption DEF Days
<1>3. LogTypes
  BY <1>1, <1>2, EmptyFacts DEF LogTypes
<1>4. \A p \in Paths : 1..Len(files[p]) = {}
  BY SMT, <1>1
<1>5. \A r : ~Holds(files, r)
  BY <1>4 DEF Holds
<1>6. Once(files) /\ Dated(day, files, modified)
  BY <1>4 DEF Once, Dated
<1>7. Placed
  BY <1>1, <1>5, <1>6, EmptyFacts DEF Placed
<1>8. Kept
  BY SMT, <1>1, <1>6 DEF Kept
<1> QED
  BY <1>3, <1>7, <1>8 DEF LogInv

(* The invariant gives the property: no two lines hold one record. *)
LEMMA LogInvLogged ==
  ASSUME LogInv
  PROVE  LoggedOnce
<1> SUFFICES ASSUME NEW r \in Records
             PROVE  /\ Cardinality(LinesOf(r)) <= 1
                    /\ r \in synced /\ today - RetentionDays <= day[r] => LinesOf(r) # {}
  BY DEF LoggedOnce
<1>1. \A x \in Lines : \E p \in Paths : \E i \in 1..Len(files[p]) : x = <<p, i>>
  <2> TAKE x \in Lines
  <2>1. PICK p \in Paths : x \in {p} \X (1..Len(files[p]))
    BY ONLY x \in Lines DEF Lines
  <2>2. PICK i \in 1..Len(files[p]) : x = <<p, i>>
    BY ONLY <2>1
  <2> QED
    BY ONLY <2>1, <2>2
<1>2. \A x, y \in LinesOf(r) : x = y
  <2> SUFFICES ASSUME NEW x \in LinesOf(r), NEW y \in LinesOf(r)
               PROVE  x = y
    OBVIOUS
  <2>1. PICK p \in Paths : \E i \in 1..Len(files[p]) : x = <<p, i>>
    BY <1>1 DEF LinesOf
  <2>2. PICK i \in 1..Len(files[p]) : x = <<p, i>>
    BY <2>1
  <2>3. PICK q \in Paths : \E j \in 1..Len(files[q]) : y = <<q, j>>
    BY <1>1 DEF LinesOf
  <2>4. PICK j \in 1..Len(files[q]) : y = <<q, j>>
    BY <2>3
  <2>5. files[p][i] = r /\ files[q][j] = r
    BY <2>2, <2>4 DEF LinesOf, At
  <2>6. Once(files)
    BY DEF LogInv, Placed
  <2>7. p = q /\ i = j
    BY <2>5, <2>6 DEF Once
  <2> QED
    BY <2>2, <2>4, <2>7
<1>3. Cardinality(LinesOf(r)) <= 1
  <2>1. CASE LinesOf(r) = {}
    BY SMT, <2>1, FS_EmptySet
  <2>2. CASE LinesOf(r) # {}
    <3>1. PICK x : LinesOf(r) = {x}
      BY <1>2, <2>2
    <3>2. Cardinality({x}) = 1
      BY FS_Singleton
    <3>3. Cardinality(LinesOf(r)) = 1
      BY <3>1, <3>2
    <3> QED
      BY SMT, <3>3
  <2> QED
    BY <2>1, <2>2
<1>4. ASSUME Holds(files, r) PROVE LinesOf(r) # {}
  <2>1. PICK p \in Paths : \E i \in 1..Len(files[p]) : files[p][i] = r
    BY <1>4 DEF Holds
  <2>2. PICK i \in 1..Len(files[p]) : files[p][i] = r
    BY <2>1
  <2>3. <<p, i>> \in Lines
    BY SMT, <2>1, <2>2 DEF Lines
  <2> QED
    BY SMT, <2>2, <2>3 DEF LinesOf, At
<1> QED
  BY <1>3, <1>4 DEF LogInv, Kept

(* Whatever fails, a usage record never gets into the files twice, and one *)
(* that flushWriter reported as written is there until it is older than    *)
(* the retention (local_file.go appendRecord, flush, cleanupExpired).      *)
THEOREM LoggedOnceCorrect == TornWrites = FALSE /\ Spec => []LoggedOnce
<1>1. TornWrites = FALSE /\ Init => LogInv
  BY LogInvInit
<1>2. LogInv /\ [Next]_vars => LogInv'
  BY LogInvStep
<1>3. LogInv => LoggedOnce
  BY LogInvLogged
<1> QED
  BY <1>1, <1>2, <1>3, PTL DEF Spec

-----------------------------------------------------------------------------
(* Orderly restarts *)

(* The process ends through Close alone, and the disk takes what is written. *)
Orderly == Crashes = FALSE /\ TornWrites = FALSE /\ DiskErrors = FALSE

(* c counts every record that has been counted. *)
Covers(c) == \A r \in Records : stage[r] \in {"counted", "queued", "dropped"} => c[r] >= 1

(* The totals that recover starts from. *)
Restored == (IF snap.state = "ok" THEN snap ELSE NoSnapshot).counts

(* The memory covers what was counted while the process runs, the snapshot *)
(* once the last flush has taken it.  No request is under way from the     *)
(* time the queue is closed, so nothing is counted after that snapshot.    *)
OrderInv ==
  /\ Orderly /\ LogInv
  /\ counts \in [Records -> Nat] /\ Restored \in [Records -> Nat]
  /\ closing => \A r \in Records : stage[r] \notin {"finished", "counted"}
  /\ flush = "last" => closing
  /\ pc = "down" => flush = "batch"
  /\ pc = "closed" => flush = "last"
  /\ Running => Covers(counts)
  /\ pc = "down" \/ (flush = "last" /\ pc \in {"cleanup", "closed"}) => Covers(Restored)

(* There are finitely many lines, so a replay adds a number to the totals. *)
LEMMA FiniteLines ==
  ASSUME LogInv, NEW T \in SUBSET Lines
  PROVE  IsFiniteSet(T) /\ Cardinality(T) \in Nat /\ (T # {} => Cardinality(T) >= 1)
<1>1. IsFiniteSet(Paths)
  <2>1. IsFiniteSet(Days) /\ IsFiniteSet(1..MaxPart)
    BY SMT, LogAssumption, FS_Interval DEF Days
  <2> QED
    BY <2>1, FS_Product DEF Paths
<1>2. \A p \in Paths : IsFiniteSet({p} \X (1..Len(files[p])))
  <2> SUFFICES ASSUME NEW p \in Paths PROVE IsFiniteSet({p} \X (1..Len(files[p])))
    OBVIOUS
  <2>1. Len(files[p]) \in Nat
    BY SMT DEF LogInv, LogTypes
  <2>2. IsFiniteSet(1..Len(files[p]))
    BY SMT, <2>1, FS_Interval
  <2>3. IsFiniteSet({p})
    BY FS_Singleton
  <2> QED
    BY <2>2, <2>3, FS_Product
<1>3. IsFiniteSet({ {p} \X (1..Len(files[p])) : p \in Paths })
  <2> DEFINE f == [p \in Paths |-> {p} \X (1..Len(files[p]))]
             S == { {p} \X (1..Len(files[p])) : p \in Paths }
  <2>1. f \in Surjection(Paths, S)
    BY DEF Surjection
  <2> QED
    BY <1>1, <2>1, FS_Surjection
<1>4. IsFiniteSet(Lines)
  BY <1>2, <1>3, FS_UNION DEF Lines
<1>5. IsFiniteSet(T)
  BY <1>4, FS_Subset
<1>6. Cardinality(T) \in Nat /\ (Cardinality(T) = 0 <=> T = {})
  BY <1>5, FS_CardinalityType, FS_EmptySet
<1> QED
  BY SMT, <1>5, <1>6

(* recover starts from the snapshot and only adds to it. *)
LEMMA StartCounts ==
  ASSUME LogInv, Restored \in [Records -> Nat], Start
  PROVE  counts' \in [Records -> Nat] /\ \A r \in Records : counts'[r] >= Restored[r]
<1> DEFINE base == IF snap.state = "ok" THEN snap ELSE NoSnapshot
           C(r) == Cardinality({x \in Replayed(base.cursor) : At(x) = r})
<1>1. \A r \in Records : C(r) \in Nat
  <2> SUFFICES ASSUME NEW r \in Records PROVE C(r) \in Nat
    OBVIOUS
  <2>1. {x \in Replayed(base.cursor) : At(x) = r} \in SUBSET Lines
    BY DEF Replayed
  <2> QED
    BY <2>1, FiniteLines
<1>2. counts' = [r \in Records |-> Restored[r] + C(r)]
  BY DEF Start, Restored
<1> HIDE DEF C
<1>3. \A r \in Records : Restored[r] \in Nat
  OBVIOUS
<1> QED
  BY SMT, <1>1, <1>2, <1>3

(* Every step keeps the order of the records.                              *)
LEMMA OrderStep ==
  ASSUME OrderInv, [Next]_vars
  PROVE  OrderInv'
<1> USE DEF memVars, fileVars, diskVars, Orderly
<1>1. LogInv'
  BY LogInvStep DEF OrderInv
<1>2. stage \in [Records -> {"new", "finished", "counted", "queued", "dropped", "gone"}]
  BY DEF OrderInv, LogInv, LogTypes
<1>3. CASE Start
  <2>1. counts' \in [Records -> Nat] /\ \A r \in Records : counts'[r] >= Restored[r]
    BY <1>3, StartCounts DEF OrderInv
  <2>2. /\ pc = "down" /\ pc' = "select" /\ closing' = FALSE /\ UNCHANGED <<stage, flush, snap>>
    BY <1>3 DEF Start
  <2>3. Restored' = Restored /\ flush # "last" /\ Covers(Restored)
    BY <2>2 DEF Restored, OrderInv
  <2>4. Covers(counts)'
    <3> SUFFICES ASSUME NEW r \in Records, stage[r] \in {"counted", "queued", "dropped"}
                 PROVE  counts'[r] >= 1
      BY <2>2 DEF Covers
    <3>1. Restored[r] >= 1 /\ Restored[r] \in Nat /\ counts'[r] \in Nat /\ counts'[r] >= Restored[r]
      BY <2>1, <2>3 DEF Covers, OrderInv
    <3> QED
      BY SMT, <3>1
  <2> QED
    BY <1>1, <2>1, <2>2, <2>3, <2>4 DEF OrderInv
<1>4. CASE Receive \/ FlushTick \/ QueueClosed \/ AppendHere \/ AppendElsewhere \/ SyncBatch
           \/ Cleanup \/ NextDay \/ UNCHANGED vars
  <2>1. UNCHANGED <<counts, stage, snap, closing>>
    BY <1>4 DEF Receive, FlushTick, QueueClosed, AppendHere, AppendElsewhere, SyncBatch, Cleanup,
                NextDay, vars
  <2>2. Restored' = Restored /\ Covers(counts)' = Covers(counts) /\ Covers(Restored)' = Covers(Restored)
    BY <2>1 DEF Restored, Covers
  <2>3. /\ flush' = "last" => closing
        /\ pc' = "down" => pc = "down" /\ flush' = flush
        /\ pc' = "closed" => flush' = "last"
        /\ pc' = "cleanup" => pc = "cleanup" /\ flush' = flush
        /\ pc' = "closed" => pc \in {"cleanup", "closed"} /\ flush' = flush
    BY <1>4 DEF Receive, FlushTick, QueueClosed, AppendHere, AppendElsewhere, SyncBatch, Cleanup,
                NextDay, vars, OrderInv
  <2>4. Running' => Running
    BY <1>4 DEF Receive, FlushTick, QueueClosed, AppendHere, AppendElsewhere, SyncBatch, Cleanup,
                NextDay, vars, Running
  <2> QED
    BY <1>1, <2>1, <2>2, <2>3, <2>4 DEF OrderInv
<1>5. CASE TruncateSnapshot
  <2>1. /\ pc = "snapshot" /\ pc' = "writing" /\ snap' = CorruptSnapshot
        /\ UNCHANGED <<counts, stage, closing, flush>>
    BY <1>5 DEF TruncateSnapshot
  <2>2. Restored' = Uncounted
    BY <2>1 DEF Restored, CorruptSnapshot, NoSnapshot
  <2>3. Restored' \in [Records -> Nat]
    BY <2>2 DEF Uncounted
  <2> QED
    BY <1>1, <2>1, <2>3 DEF OrderInv, Running, Covers
<1>6. CASE FillSnapshot
  <2>1. /\ pc = "writing" /\ pc' = "cleanup" /\ UNCHANGED <<counts, stage, closing, flush>>
        /\ snap' = [state |-> "ok", counts |-> counts, cursor |-> cursor]
    BY <1>6 DEF FillSnapshot
  <2>2. Restored' = counts
    BY <2>1 DEF Restored
  <2>3. Covers(counts) /\ Covers(counts)' /\ Covers(Restored)'
    BY <2>1, <2>2 DEF OrderInv, Running, Covers
  <2> QED
    BY <1>1, <2>1, <2>2, <2>3 DEF OrderInv
<1>7. CASE Close
  <2>1. /\ Running /\ closing' = TRUE /\ UNCHANGED <<counts, stage, snap, flush, pc>>
        /\ \A r \in Records : stage[r] \notin {"finished", "counted"}
    BY <1>7 DEF Close, OrderInv
  <2>2. Restored' = Restored /\ Covers(counts)' = Covers(counts) /\ Covers(Restored)' = Covers(Restored)
    BY <2>1 DEF Restored, Covers
  <2> QED
    BY <1>1, <2>1, <2>2 DEF OrderInv, Running
<1>8. CASE Exit
  <2>1. /\ pc = "closed" /\ pc' = "down" /\ closing' = FALSE /\ flush' = "batch" /\ snap' = snap
        /\ counts' = Uncounted
        /\ stage' = [r \in Records |-> IF stage[r] \in {"finished", "counted"} THEN "gone" ELSE stage[r]]
    BY <1>8 DEF Exit, Die
  <2>2. Restored' = Restored /\ Covers(Restored)
    BY <2>1 DEF Restored, OrderInv
  <2>3. Covers(Restored)'
    BY <1>2, <2>1, <2>2 DEF Covers
  <2>4. counts' \in [Records -> Nat]
    BY <2>1 DEF Uncounted
  <2> QED
    BY <1>1, <2>1, <2>2, <2>3, <2>4 DEF OrderInv, Running
<1>9. ASSUME NEW r \in Records, Finish(r) \/ Count(r) \/ Enqueue(r)
      PROVE  OrderInv'
  <2>1. /\ Running /\ ~closing /\ UNCHANGED <<snap, closing, pc, flush>>
    BY <1>9 DEF Finish, Count, Enqueue, OrderInv
  <2>2. Restored' = Restored
    BY <2>1 DEF Restored
  <2>3. counts' \in [Records -> Nat] /\ Covers(counts)'
    <3>1. counts \in [Records -> Nat] /\ Covers(counts)
      BY <2>1 DEF OrderInv
    <3>2. CASE Finish(r)
      BY <1>2, <3>1, <3>2 DEF Finish, Covers
    <3>3. CASE Count(r)
      <4>1. stage' = [stage EXCEPT ![r] = "counted"] /\ counts' = [counts EXCEPT ![r] = @ + 1]
        BY <3>3 DEF Count
      <4>2. counts' \in [Records -> Nat] /\ counts'[r] >= 1 /\ \A x \in Records : x # r => counts'[x] = counts[x]
        BY SMT, <3>1, <4>1
      <4> QED
        BY <1>2, <3>1, <4>1, <4>2 DEF Covers
    <3>4. CASE Enqueue(r)
      <4>1. /\ stage[r] = "counted" /\ counts' = counts
            /\ stage' \in {[stage EXCEPT ![r] = "queued"], [stage EXCEPT ![r] = "dropped"]}
        BY <3>4 DEF Enqueue
      <4> QED
        BY <1>2, <3>1, <4>1 DEF Covers
    <3> QED
      BY <1>9, <3>2, <3>3, <3>4
  <2> QED
    BY <1>1, <2>1, <2>2, <2>3 DEF OrderInv, Running
<1>10. /\ ~OpenFails /\ ~WriteFails /\ ~FlushFails /\ ~SnapshotFails /\ ~Crash
       /\ \A r \in Records : ~SendOnClosedQueue(r)
  BY DEF OrderInv, OpenFails, WriteFails, FlushFails, SnapshotFails, Crash, SendOnClosedQueue
<1> QED
  BY <1>3, <1>4, <1>5, <1>6, <1>7, <1>8, <1>9, <1>10 DEF Next, Worker, Request

(* A record that was counted once stays counted, across orderly restarts   *)
(* too, and also when the queue was full and the record never reached a    *)
(* file (local_file.go Record, run, writeSnapshot, recover).               *)
THEOREM RecordedStaysCountedCorrect == Orderly /\ Spec => []RecordedStaysCounted
<1>1. Orderly /\ Init => OrderInv
  <2> SUFFICES ASSUME Orderly, Init PROVE OrderInv
    OBVIOUS
  <2>1. LogInv
    BY LogInvInit DEF Orderly
  <2>2. /\ snap = NoSnapshot /\ closing = FALSE /\ pc = "down" /\ flush = "batch" /\ counts = Uncounted
        /\ stage = [r \in Records |-> "new"]
    BY DEF Init
  <2>3. Restored = Uncounted /\ Uncounted \in [Records -> Nat]
    BY <2>2 DEF Restored, NoSnapshot, Uncounted
  <2>4. \A c : Covers(c)
    BY <2>2 DEF Covers
  <2> QED
    BY <2>1, <2>2, <2>3, <2>4 DEF OrderInv, Running
<1>2. OrderInv /\ [Next]_vars => OrderInv'
  BY OrderStep
<1>3. OrderInv => RecordedStaysCounted
  BY DEF OrderInv, RecordedStaysCounted, Covers
<1> QED
  BY <1>1, <1>2, <1>3, PTL DEF Spec

-----------------------------------------------------------------------------
(* One file *)

(* A run of one day whose records fit into one file: rotateIfNeeded never  *)
(* goes on to another part.  With two files the line numbers of cursors    *)
(* are no longer those of the file (openWriter).                           *)
OneFile == TornWrites = FALSE /\ MaxDay = 0 /\ Cardinality(Records) < RotateLines

TheFile == <<0, 1>>

(* What recover starts from. *)
Saved == IF snap.state = "ok" THEN snap ELSE NoSnapshot

Cursors == [path : {NoPath, TheFile}, line : Nat]

FileInv ==
  /\ ~broken /\ path \in {NoPath, TheFile}
  /\ path = TheFile => curDay = 0
  /\ path = NoPath /\ pc # "closed" => curDay = NoDay
  /\ \A p \in Paths : p # TheFile => files[p] = << >>

(* The memory covers what is on its way to the file or in it. *)
CountInv ==
  /\ counts \in [Records -> Nat]
  /\ Running => \A r \in Records :
       \/ stage[r] = "counted" \/ r \in Elems(queue) \/ r \in Elems(batch)
       \/ r \in Elems(buffered) \/ Holds(files, r)
       => counts[r] >= 1
  /\ ~Running => queue = << >> /\ batch = << >> /\ \A r \in Records : stage[r] # "counted"

(* No cursor is ahead of the lines ... *)
CursorInv ==
  /\ line \in Nat /\ line <= Len(files[TheFile]) + Len(buffered)
  /\ cursor \in Cursors /\ cursor.line <= Len(files[TheFile]) + Len(buffered)

(* ... and a snapshot covers the lines up to its own. *)
SavedInv ==
  /\ Saved.counts \in [Records -> Nat] /\ Saved.cursor \in Cursors
  /\ Saved.cursor.line <= Len(files[TheFile])
  /\ \A i \in 1..Len(files[TheFile]) :
       i <= Saved.cursor.line => Saved.counts[files[TheFile][i]] >= 1

DurableInv == OneFile /\ LogInv /\ (~faulty => FileInv /\ CountInv /\ CursorInv /\ SavedInv)

(* On one day there is one file.                                           *)
LEMMA OneFileFacts ==
  ASSUME OneFile
  PROVE  Days = {0} /\ TheFile \in Paths /\ TheFile # NoPath
<1>1. Days = {0}
  BY SMT DEF OneFile, Days
<1>2. MaxPart \in Nat /\ MaxPart >= 1
  BY SMT, LogAssumption
<1>3. TheFile \in Paths
  BY SMT, <1>1, <1>2 DEF TheFile, Paths
<1> QED
  BY <1>1, <1>3, NoPathIsNone

(* The file has n more lines and keeps those it had. *)
Grown(f, n) ==
  /\ \A p \in Paths : p # TheFile => f[p] = files[p]
  /\ Len(f[TheFile]) = Len(files[TheFile]) + n
  /\ \A i \in 1..Len(files[TheFile]) : f[TheFile][i] = files[TheFile][i]

(* A file that is left alone has grown by nothing.                         *)
LEMMA SameGrown ==
  ASSUME OneFile, LogInv, files' = files
  PROVE  Grown(files', 0)
<1>1. Len(files[TheFile]) \in Nat
  BY SMT, OneFileFacts DEF LogInv, LogTypes
<1> QED
  BY SMT, <1>1 DEF Grown

(* A write appends its lines to the file.                                  *)
LEMMA WriteGrown ==
  ASSUME OneFile, LogInv, FileInv, NEW lines \in Seq(Records), path = NoPath => lines = << >>,
         Write(lines)
  PROVE  Grown(files', Len(lines))
<1>1. CASE lines = << >>
  <2>1. files' = files /\ Len(lines) = 0
    BY <1>1 DEF Write
  <2> QED
    BY <2>1, SameGrown
<1>2. CASE lines # << >>
  <2> DEFINE old == files[TheFile]
             new == old \o lines
  <2>1. path = TheFile /\ TheFile \in Paths
    BY <1>2, OneFileFacts DEF FileInv
  <2>2. /\ old \in Seq(Records) /\ Len(old) \in Nat /\ Len(new) = Len(old) + Len(lines)
        /\ \A i \in 1..Len(old) : new[i] = old[i]
    <3>1. old \in Seq(Records)
      BY <2>1 DEF LogInv, LogTypes
    <3> QED
      BY SMT, <3>1
  <2>3. Extended(old, lines) = new
    <3>1. old # << >> => old[Len(old)] \in Records
      BY SMT, <2>2
    <3>2. old # << >> => old[Len(old)] # Torn
      BY <3>1, LogAssumption
    <3> QED
      BY <3>2 DEF Extended
  <2>4. files' = [files EXCEPT ![TheFile] = new]
    BY <1>2, <2>1, <2>3 DEF Write
  <2> HIDE DEF new
  <2>5. files'[TheFile] = new /\ \A p \in Paths : p # TheFile => files'[p] = files[p]
    BY <2>1, <2>4 DEF LogInv, LogTypes
  <2> QED
    BY <2>2, <2>5 DEF Grown
<1> QED
  BY <1>1, <1>2

(* A flush appends the whole buffer.                                       *)
LEMMA FlushGrown ==
  ASSUME OneFile, LogInv, FileInv, Flush
  PROVE  Grown(files', Len(buffered))
<1>1. buffered \in Seq(Records) /\ (path = NoPath => buffered = << >>)
  BY DEF LogInv, LogTypes
<1>2. CASE path = NoPath
  <2>1. files' = files /\ Len(buffered) = 0
    BY <1>1, <1>2 DEF Flush
  <2> QED
    BY <2>1, SameGrown
<1>3. CASE path # NoPath
  BY <1>1, <1>3, WriteGrown DEF Flush, FileInv
<1> QED
  BY <1>2, <1>3

(* A crash may write some of the buffer.                                   *)
LEMMA PartGrown ==
  ASSUME OneFile, LogInv, FileInv,
         \E lines \in IF broken THEN {<< >>} ELSE Prefixes(buffered) : Write(lines)
  PROVE  \E n \in Nat : Grown(files', n)
<1>1. /\ buffered \in Seq(Records) /\ (path = NoPath => buffered = << >>) /\ TornWrites = FALSE
      /\ ~broken
  BY DEF LogInv, LogTypes, FileInv
<1>2. PICK n \in 0..Len(buffered) : Write(SubSeq(buffered, 1, n))
  BY <1>1 DEF Prefixes
<1> DEFINE lines == SubSeq(buffered, 1, n)
<1>3. lines \in Seq(Records)
  BY <1>1, PrefixFacts
<1>4. path = NoPath => lines = << >>
  BY SMT, <1>1
<1> HIDE DEF lines
<1>5. Grown(files', Len(lines))
  BY <1>2, <1>3, <1>4, WriteGrown DEF lines
<1> QED
  BY SMT, <1>3, <1>5

(* What the file gains lies after the cursor of the snapshot. *)
LEMMA SavedKept ==
  ASSUME OneFile, LogInv, SavedInv, snap' = snap, NEW n \in Nat, Grown(files', n)
  PROVE  SavedInv'
<1> DEFINE F == files[TheFile]
<1>1. Saved' = Saved
  BY DEF Saved
<1>2. Len(F) \in Nat
  BY SMT, OneFileFacts DEF LogInv, LogTypes
<1>3. Len(F') = Len(F) + n /\ \A i \in 1..Len(F) : F'[i] = F[i]
  BY DEF Grown
<1>4. Saved.cursor.line \in Nat /\ Saved.cursor.line <= Len(F)
  BY DEF SavedInv, Cursors
<1>5. Saved.cursor.line <= Len(F')
  BY SMT, <1>2, <1>3, <1>4
<1>6. \A i \in 1..Len(F') : i <= Saved.cursor.line => i \in 1..Len(F)
  BY SMT, <1>2, <1>3, <1>4
<1> HIDE DEF F
<1>7. \A i \in 1..Len(F') : i <= Saved.cursor.line => Saved.counts[F'[i]] >= 1
  BY <1>3, <1>6 DEF SavedInv, F
<1> QED
  BY <1>1, <1>5, <1>7 DEF SavedInv, F

(* The other files stay empty.                                             *)
LEMMA FileKept ==
  ASSUME OneFile, FileInv, NEW n \in Nat, Grown(files', n)
  PROVE  \A p \in Paths : p # TheFile => files'[p] = << >>
BY DEF FileInv, Grown

(* No record is on two lines, so the file never reaches its limit. *)
LEMMA Fits ==
  ASSUME OneFile, LogInv
  PROVE  Len(files[TheFile]) + Len(buffered) < RotateLines
<1> DEFINE F == files[TheFile]
           n == Len(F)
           k == Len(buffered)
           s == F \o buffered
<1>1. TheFile \in Paths
  BY OneFileFacts
<1>2. F \in Seq(Records) /\ buffered \in Seq(Records)
  BY <1>1 DEF LogInv, LogTypes
<1>3. /\ n \in Nat /\ k \in Nat /\ s \in Seq(Records) /\ Len(s) = n + k
      /\ \A i \in 1..n : s[i] = F[i]
      /\ \A i \in 1..k : s[n + i] = buffered[i]
  BY SMT, <1>2
<1> HIDE DEF s
<1>4. \A i \in 1..(n + k) : i \in 1..n \/ (i - n \in 1..k /\ i = n + (i - n))
  BY SMT, <1>3
<1>5. \A i \in 1..(n + k) : \/ i \in 1..n /\ s[i] = F[i]
                            \/ i - n \in 1..k /\ s[i] = buffered[i - n]
  BY <1>3, <1>4
<1>6. \A i \in 1..n : Holds(files, F[i])
  BY <1>1 DEF Holds
<1>7. \A i \in 1..k : ~Holds(files, buffered[i])
  BY DEF LogInv, Placed, Elems
<1>8. \A i, j \in 1..(n + k) : s[i] = s[j] => i = j
  <2> SUFFICES ASSUME NEW i \in 1..(n + k), NEW j \in 1..(n + k), s[i] = s[j]
               PROVE  i = j
    OBVIOUS
  <2>1. CASE i \in 1..n /\ j \in 1..n
    <3>1. F[i] = F[j]
      BY <1>3, <2>1
    <3>2. Once(files)
      BY DEF LogInv, Placed
    <3> QED
      BY <1>1, <2>1, <3>1, <3>2 DEF Once
  <2>2. CASE i - n \in 1..k /\ j - n \in 1..k /\ s[i] = buffered[i - n] /\ s[j] = buffered[j - n]
    <3>1. i - n = j - n
      BY <2>2 DEF LogInv, Placed, Distinct
    <3> QED
      BY SMT, <1>3, <3>1
  <2>3. CASE i \in 1..n /\ s[i] = F[i] /\ j - n \in 1..k /\ s[j] = buffered[j - n]
    BY <1>6, <1>7, <2>3
  <2>4. CASE i - n \in 1..k /\ s[i] = buffered[i - n] /\ j \in 1..n /\ s[j] = F[j]
    BY <1>6, <1>7, <2>4
  <2> QED
    BY <1>5, <2>1, <2>2, <2>3, <2>4
<1>9. s \in Injection(1..(n + k), Records)
  <2>1. DOMAIN s = 1..(n + k) /\ s \in [1..(n + k) -> Records]
    BY SMT, <1>3
  <2> QED
    BY <1>8, <2>1 DEF Injection, IsInjective
<1>10. Cardinality(1..(n + k)) <= Cardinality(Records)
  BY <1>9, LogAssumption, FS_Injection
<1>11. Cardinality(1..(n + k)) = n + k
  <2> DEFINE m == n + k
  <2>1. m \in Nat /\ 1 \in Int /\ m \in Int
    BY SMT, <1>3
  <2> HIDE DEF m
  <2>2. Cardinality(1..m) = IF 1 > m THEN 0 ELSE m - 1 + 1
    BY <2>1, FS_Interval
  <2>3. Cardinality(1..m) = m
    BY SMT, <2>1, <2>2
  <2> QED
    BY <2>3 DEF m
<1>12. Cardinality(Records) \in Nat /\ Cardinality(Records) < RotateLines /\ RotateLines \in Nat
  BY LogAssumption, FS_CardinalityType DEF OneFile
<1> HIDE DEF n, k
<1>13. n + k < RotateLines
  BY SMT, <1>3, <1>10, <1>11, <1>12
<1> QED
  BY <1>13 DEF n, k

(* What moves on was covered before. *)
LEMMA CountKept ==
  ASSUME LogInv, CountInv, Running, Running', counts' = counts,
         \A r \in Records : stage'[r] = "counted" => stage[r] = "counted",
         \A r \in Elems(queue') : r \in Elems(queue) \/ stage[r] = "counted",
         Elems(batch') \subseteq Elems(queue) \cup Elems(batch),
         Elems(buffered') \subseteq Elems(batch) \cup Elems(buffered),
         \A r \in Records : Holds(files', r) => Holds(files, r) \/ r \in Elems(buffered)
  PROVE  CountInv'
<1> DEFINE C(r) == \/ stage[r] = "counted" \/ r \in Elems(queue) \/ r \in Elems(batch)
                   \/ r \in Elems(buffered) \/ Holds(files, r)
<1>1. \A r \in Records : C(r)' => C(r)
  OBVIOUS
<1>2. \A r \in Records : C(r) => counts[r] >= 1
  BY DEF CountInv
<1> HIDE DEF C
<1>3. \A r \in Records : C(r)' => counts'[r] >= 1
  BY <1>1, <1>2
<1> QED
  BY <1>3 DEF CountInv, C

(* recover: what lies behind the cursor is in the snapshot's totals, what  *)
(* lies after it is replayed.                                              *)
LEMMA StartDurable ==
  ASSUME OneFile, LogInv, FileInv, SavedInv, Start
  PROVE  /\ counts' \in [Records -> Nat]
         /\ \A i \in 1..Len(files[TheFile]) : counts'[files[TheFile][i]] >= 1
         /\ cursor' \in Cursors /\ cursor'.line <= Len(files[TheFile])
<1> DEFINE F == files[TheFile]
           c == Saved.cursor
           R == Replayed(c)
           Of(r) == {x \in R : At(x) = r}
<1>1. TheFile \in Paths /\ F \in Seq(Records) /\ Len(F) \in Nat
  BY SMT, OneFileFacts DEF LogInv, LogTypes
<1>2. c \in Cursors /\ c.line \in Nat /\ c.path \in {NoPath, TheFile} /\ c.line <= Len(F)
  BY DEF SavedInv, Cursors
<1>3. ~Before(TheFile, c.path)
  <2>1. TheFile[1] = 0 /\ TheFile[2] = 1 /\ NoPath[1] = 0 /\ NoPath[2] = 0
    BY DEF TheFile, NoPath
  <2> QED
    BY SMT, <1>2, <2>1 DEF Before
<1>4. counts' = [r \in Records |-> Saved.counts[r] + Cardinality(Of(r))] /\ cursor' = LastOf(R, c)
  BY DEF Start, Saved
<1>5. \A x \in Lines : \E i \in 1..Len(F) : x = <<TheFile, i>>
  <2>1. \A p \in Paths : p # TheFile => 1..Len(files[p]) = {}
    BY SMT DEF FileInv
  <2> QED
    BY SMT, <2>1 DEF Lines
<1>6. \A i \in 1..Len(F) : <<TheFile, i>> \in Lines /\ At(<<TheFile, i>>) = F[i] /\ F[i] \in Records
  BY SMT, <1>1 DEF Lines, At
<1>7. \A i \in 1..Len(F) : i > c.line => <<TheFile, i>> \in R
  BY <1>3, <1>6 DEF Replayed
<1>8. \A x \in R : x \in Lines
  BY DEF Replayed
<1>9. \A r \in Records : Cardinality(Of(r)) \in Nat /\ (Of(r) # {} => Cardinality(Of(r)) >= 1)
  <2> SUFFICES ASSUME NEW r \in Records
               PROVE  Cardinality(Of(r)) \in Nat /\ (Of(r) # {} => Cardinality(Of(r)) >= 1)
    OBVIOUS
  <2>1. Of(r) \in SUBSET Lines
    BY <1>8
  <2> HIDE DEF Of
  <2> QED
    BY <2>1, FiniteLines
<1>10. \A r \in Records : Saved.counts[r] \in Nat
  BY DEF SavedInv
<1>11. ASSUME NEW i \in 1..Len(F)
       PROVE  Saved.counts[F[i]] >= 1 \/ Of(F[i]) # {}
  <2>1. CASE i <= c.line
    BY <2>1 DEF SavedInv
  <2>2. CASE i > c.line
    <3>1. <<TheFile, i>> \in Of(F[i])
      BY <1>6, <1>7, <2>2
    <3> QED
      BY <3>1
  <2>3. i \in Int /\ c.line \in Int
    BY SMT, <1>2
  <2>4. i <= c.line \/ i > c.line
    BY ONLY <2>3
  <2> QED
    BY ONLY <2>1, <2>2, <2>4
<1>12. cursor' \in Cursors /\ cursor'.line <= Len(F)
  <2>1. CASE R = {}
    BY <1>2, <1>4, <2>1 DEF LastOf
  <2>2. CASE R # {}
    <3> DEFINE n == Len(F)
               Last(x) == \A y \in R : Before(y[1], x[1]) \/ (y[1] = x[1] /\ y[2] <= x[2])
    <3>1. PICK x \in R : TRUE
      BY <2>2
    <3>2. PICK i \in 1..n : x = <<TheFile, i>>
      BY <1>5, <1>8
    <3>3. c.path = TheFile => i > c.line
      BY <3>1, <3>2 DEF Replayed
    <3>4. n \in 1..n /\ i <= n /\ (c.path = TheFile => n > c.line)
      <4>1. n \in Nat /\ i \in 1..n /\ c.line \in Nat
        BY <1>1, <1>2
      <4>2. n \in 1..n /\ i <= n /\ (i > c.line => n > c.line)
        BY ONLY <4>1
      <4> QED
        BY ONLY <3>3, <4>2
    <3>5. <<TheFile, n>> \in R
      BY <1>3, <1>6, <3>4 DEF Replayed
    <3>6. \A y \in R : y[1] = TheFile /\ y[2] \in 1..n /\ y[2] <= n
      BY SMT, <1>1, <1>5, <1>8
    <3>7. Last(<<TheFile, n>>)
      BY <3>6
    <3> DEFINE z == CHOOSE x0 \in R : Last(x0)
    <3>8. z \in R
      BY <3>5, <3>7
    <3>9. cursor' = [path |-> z[1], line |-> z[2]]
      BY <1>4, <2>2 DEF LastOf
    <3> HIDE DEF z
    <3>10. z[1] = TheFile /\ z[2] \in Nat /\ z[2] <= n
      BY SMT, <1>1, <3>6, <3>8
    <3> QED
      BY <3>9, <3>10 DEF Cursors
  <2> QED
    BY <2>1, <2>2
<1> HIDE DEF Of, c, R
<1>13. counts' \in [Records -> Nat] /\ \A i \in 1..Len(F) : counts'[F[i]] >= 1
  <2>1. \A r \in Records : Saved.counts[r] + Cardinality(Of(r)) \in Nat
    BY SMT, <1>9, <1>10
  <2>2. ASSUME NEW r \in Records, Saved.counts[r] >= 1 \/ Cardinality(Of(r)) >= 1
        PROVE  Saved.counts[r] + Cardinality(Of(r)) >= 1
    <3>1. Saved.counts[r] \in Nat /\ Cardinality(Of(r)) \in Nat
      BY <1>9, <1>10
    <3> QED
      BY ONLY <2>2, <3>1
  <2>3. \A i \in 1..Len(F) : Saved.counts[F[i]] + Cardinality(Of(F[i])) >= 1
    BY <1>6, <1>9, <1>11, <2>2
  <2> QED
    BY <1>4, <1>6, <2>1, <2>3
<1> QED
  BY <1>12, <1>13

(* appendRecord opens the one file when none is open, and stays in it. *)
LEMMA AppendDurable ==
  ASSUME OneFile, LogInv, LogInv', FileInv, CountInv, CursorInv, SavedInv,
         AppendHere \/ AppendElsewhere
  PROVE  (FileInv /\ CountInv /\ CursorInv /\ SavedInv)'
<1> USE DEF diskVars
<1> DEFINE r == Head(batch)
           n == Len(files[TheFile])
<1>1. batch # << >> /\ pc = "append" /\ pc' = pc /\ UNCHANGED <<counts, stage, queue, broken, snap>>
  BY DEF AppendHere, AppendElsewhere
<1>2. /\ r \in Records /\ r \in Elems(batch) /\ Elems(Tail(batch)) \subseteq Elems(batch)
  BY <1>1, BatchFacts
<1>3. day[r] = 0 /\ TheFile \in Paths /\ TheFile # NoPath /\ n \in Nat /\ buffered \in Seq(Records)
  <2>1. r \in Records /\ DOMAIN files = Paths /\ buffered \in Seq(Records)
    BY <1>2 DEF LogInv, LogTypes
  <2>2. TheFile \in Paths /\ TheFile # NoPath
    BY OneFileFacts
  <2>3. files[TheFile] \in Seq(Records)
    BY <2>2 DEF LogInv, LogTypes
  <2>4. day[r] = 0
    BY <1>2, OneFileFacts DEF LogInv, LogTypes
  <2> QED
    BY SMT, <2>1, <2>2, <2>3, <2>4
<1>4. Len(buffered) \in Nat /\ line \in Nat /\ RotateLines \in Nat
  BY SMT, <1>3, LogAssumption DEF CursorInv
<1>5. ~(n + Len(buffered) >= RotateLines)
  <2>1. n + Len(buffered) < RotateLines
    BY Fits
  <2> QED
    BY SMT, <1>3, <1>4, <2>1
<1>6. MustRotate(r) <=> path = NoPath
  BY <1>3, <1>5 DEF MustRotate, Size, FileInv
<1>7. files' = files /\ path' = TheFile /\ curDay' = 0
  <2>1. CASE AppendHere
    BY <1>6, <2>1 DEF AppendHere, FileInv
  <2>2. CASE AppendElsewhere
    <3>1. path = NoPath /\ curDay = NoDay
      BY <1>1, <1>6, <2>2 DEF AppendElsewhere, FileInv
    <3>2. NextPart(r) = 1
      BY SMT, <1>3, <3>1 DEF NextPart, NoDay
    <3> QED
      BY <1>3, <2>2, <3>1, <3>2 DEF AppendElsewhere, Flush, TheFile
  <2> QED
    BY <2>1, <2>2
<1>8. batch' = Tail(batch) /\ Elems(buffered') \subseteq Elems(batch) \cup Elems(buffered)
  <2>1. CASE AppendHere
    <3>1. batch' = Tail(batch) /\ buffered' = Append(buffered, r)
      BY <2>1 DEF AppendHere
    <3> QED
      BY SMT, <1>2, <1>3, <3>1, AppendFacts
  <2>2. CASE AppendElsewhere
    <3>1. batch' = Tail(batch) /\ buffered' = <<r>>
      BY <2>2 DEF AppendElsewhere
    <3>2. Elems(<<r>>) = {r}
      BY ONLY DEF Elems
    <3> QED
      BY <1>2, <3>1, <3>2
  <2> QED
    BY <2>1, <2>2
<1>9. CountInv'
  <2>1. Elems(batch') \subseteq Elems(queue) \cup Elems(batch)
    BY <1>2, <1>8
  <2> QED
    BY <1>1, <1>7, <1>8, <2>1, CountKept DEF Running
<1>10. FileInv'
  BY <1>1, <1>3, <1>7 DEF FileInv
<1>11. CursorInv'
  <2>1. /\ Len(buffered') \in Nat /\ line' \in Nat /\ line' <= n + Len(buffered')
        /\ cursor' = [path |-> TheFile, line |-> line']
    <3>1. CASE AppendHere
      <4>1. line' = line + 1 /\ buffered' = Append(buffered, r) /\ cursor' = [path |-> path', line |-> line + 1]
        BY <3>1 DEF AppendHere
      <4>2. Len(buffered') = Len(buffered) + 1
        BY SMT, <1>2, <1>3, <4>1
      <4>3. line <= n + Len(buffered)
        BY DEF CursorInv
      <4>4. cursor' = [path |-> TheFile, line |-> line']
        BY <1>7, <4>1
      <4> HIDE DEF n
      <4>5. Len(buffered') \in Nat /\ line' \in Nat /\ line' <= n + Len(buffered')
        BY SMT, <1>3, <1>4, <4>1, <4>2, <4>3
      <4> QED
        BY <4>4, <4>5
    <3>2. CASE AppendElsewhere
      <4>1. path = NoPath /\ buffered' = <<r>> /\ cursor' = [path |-> path', line |-> line']
        BY <1>6, <3>2 DEF AppendElsewhere
      <4>2. line' = IF files[TheFile] = << >> THEN 1 ELSE line + 1
        BY <1>7, <3>2 DEF AppendElsewhere
      <4>3. Len(buffered') = 1 /\ Len(buffered) = 0
        BY <4>1 DEF LogInv, LogTypes
      <4>4. line <= n
        <5>1. line <= n + Len(buffered)
          BY DEF CursorInv
        <5> QED
          BY SMT, <1>3, <1>4, <4>3, <5>1
      <4>5. line' \in Nat /\ line' <= n + 1
        BY SMT, <1>3, <1>4, <4>2, <4>4
      <4> QED
        BY <1>7, <4>1, <4>3, <4>5
    <3> QED
      BY <3>1, <3>2
  <2> QED
    BY <1>7, <2>1 DEF CursorInv, Cursors
<1>12. SavedInv'
  BY <1>1, <1>7, SameGrown, SavedKept
<1> QED
  BY <1>9, <1>10, <1>11, <1>12

(* flush writes the buffer, and nothing of the file goes. *)
LEMMA SyncDurable ==
  ASSUME OneFile, LogInv, FileInv, CountInv, CursorInv, SavedInv, SyncBatch
  PROVE  (FileInv /\ CountInv /\ CursorInv /\ SavedInv)'
<1> USE DEF memVars
<1>1. /\ Flush /\ Running /\ Running' /\ pc' # "closed" /\ pc # "closed" /\ buffered' = << >>
      /\ UNCHANGED <<stage, counts, queue, batch, path, line, curDay, broken, cursor, snap>>
  BY DEF SyncBatch, Running
<1>2. Grown(files', Len(buffered)) /\ Written(files', modified', synced')
  BY <1>1, FlushGrown, FlushOK
<1>3. Len(buffered) \in Nat /\ Len(files[TheFile]) \in Nat
  BY SMT, OneFileFacts DEF LogInv, LogTypes
<1>4. FileInv'
  <2>1. \A p \in Paths : p # TheFile => files'[p] = << >>
    BY <1>2, <1>3, FileKept
  <2> QED
    BY <1>1, <2>1 DEF FileInv
<1>5. CountInv'
  BY <1>1, <1>2, CountKept, EmptyFacts DEF Written
<1>6. CursorInv'
  <2>1. Len(files'[TheFile]) + Len(buffered') = Len(files[TheFile]) + Len(buffered)
    <3>1. Len(files'[TheFile]) = Len(files[TheFile]) + Len(buffered)
      BY <1>2 DEF Grown
    <3>2. Len(buffered') = 0
      BY <1>1
    <3> QED
      BY ONLY <1>3, <3>1, <3>2
  <2> QED
    BY <1>1, <2>1 DEF CursorInv
<1>7. SavedInv'
  BY <1>1, <1>2, <1>3, SavedKept
<1> QED
  BY <1>4, <1>5, <1>6, <1>7

(* The end of the process leaves the file and the snapshot. *)
LEMMA DieDurable ==
  ASSUME OneFile, LogInv, FileInv, SavedInv, Die, NEW n \in Nat, Grown(files', n)
  PROVE  (FileInv /\ CountInv /\ CursorInv /\ SavedInv)'
<1>1. /\ counts' = Uncounted /\ pc' = "down" /\ path' = NoPath /\ line' = 0 /\ curDay' = NoDay
      /\ buffered' = << >> /\ broken' = FALSE /\ cursor' = NoCursor /\ snap' = snap
      /\ queue' = << >> /\ batch' = << >>
      /\ stage' = [r \in Records |-> IF stage[r] \in {"finished", "counted"} THEN "gone" ELSE stage[r]]
  BY DEF Die
<1>2. FileInv'
  <2>1. \A p \in Paths : p # TheFile => files'[p] = << >>
    BY FileKept
  <2> QED
    BY <1>1, <2>1, OneFileFacts DEF FileInv
<1>3. CountInv'
  BY <1>1 DEF CountInv, Uncounted, Running
<1>4. CursorInv'
  <2>1. Len(files[TheFile]) \in Nat
    BY SMT, OneFileFacts DEF LogInv, LogTypes
  <2>2. Len(files'[TheFile]) \in Nat
    BY SMT, <2>1 DEF Grown
  <2>3. NoCursor \in Cursors /\ NoCursor.line = 0
    BY DEF NoCursor, Cursors
  <2> QED
    BY SMT, <1>1, <2>2, <2>3 DEF CursorInv
<1>5. SavedInv'
  BY <1>1, SavedKept
<1> QED
  BY <1>2, <1>3, <1>4, <1>5

(* Steps that leave the log alone and count nothing. *)
LEMMA IdleDurable ==
  ASSUME OneFile, LogInv, FileInv, CountInv, CursorInv, SavedInv,
         UNCHANGED <<counts, stage, queue, batch, buffered, path, line, curDay, broken, cursor, files>>,
         Running, Running', pc' = "closed" \/ pc # "closed"
  PROVE  (FileInv /\ CountInv /\ CursorInv)' /\ (snap' = snap => SavedInv')
<1>1. FileInv' /\ CursorInv'
  BY DEF FileInv, CursorInv
<1>2. CountInv'
  BY CountKept
<1>3. snap' = snap => SavedInv'
  BY SameGrown, SavedKept
<1> QED
  BY <1>1, <1>2, <1>3

(* Every step keeps what is on disk.                                       *)
LEMMA DurableStep ==
  ASSUME DurableInv, [Next]_vars
  PROVE  DurableInv'
<1> USE DEF memVars, fileVars, diskVars
<1>1. LogInv' /\ OneFile'
  BY LogInvStep DEF DurableInv, OneFile
<1>2. SUFFICES ASSUME ~faulty' PROVE (FileInv /\ CountInv /\ CursorInv /\ SavedInv)'
  BY <1>1 DEF DurableInv
<1>3. ~OpenFails /\ ~WriteFails /\ ~FlushFails
  BY <1>2 DEF OpenFails, WriteFails, FlushFails
<1>4. ~faulty
  BY <1>2, <1>3 DEF Next, Worker, Request, vars, Start, Receive, FlushTick, QueueClosed, AppendHere,
       AppendElsewhere, SyncBatch, TruncateSnapshot, FillSnapshot, SnapshotFails, Cleanup, Close,
       Exit, Crash, NextDay, Finish, Count, Enqueue, SendOnClosedQueue, Die
<1>5. OneFile /\ LogInv /\ FileInv /\ CountInv /\ CursorInv /\ SavedInv
  BY <1>4 DEF DurableInv
<1>6. stage \in [Records -> {"new", "finished", "counted", "queued", "dropped", "gone"}]
  BY <1>5 DEF LogInv, LogTypes
<1>7. CASE Start
  <2>1. /\ counts' \in [Records -> Nat]
        /\ \A i \in 1..Len(files[TheFile]) : counts'[files[TheFile][i]] >= 1
        /\ cursor' \in Cursors /\ cursor'.line <= Len(files[TheFile])
    BY <1>5, <1>7, StartDurable
  <2>2. /\ pc = "down" /\ pc' = "select"
        /\ UNCHANGED <<stage, queue, batch, buffered, path, line, curDay, broken, files, snap>>
    BY <1>7 DEF Start
  <2>3. buffered = << >> /\ queue = << >> /\ batch = << >> /\ \A r \in Records : stage[r] # "counted"
    BY <1>5, <2>2 DEF LogInv, LogTypes, CountInv, Running
  <2>4. \A r \in Records : Holds(files, r) => counts'[r] >= 1
    <3>1. \A p \in Paths : p # TheFile => 1..Len(files[p]) = {}
      BY SMT, <1>5 DEF FileInv
    <3> QED
      BY <2>1, <3>1 DEF Holds
  <2>5. CountInv'
    BY <2>1, <2>2, <2>3, <2>4, EmptyFacts DEF CountInv, Running
  <2>6. FileInv'
    BY <1>5, <2>2 DEF FileInv
  <2>7. CursorInv'
    <3>1. Len(files[TheFile]) \in Nat /\ Len(buffered) = 0
      BY SMT, <1>5, <2>3, OneFileFacts DEF LogInv, LogTypes
    <3>2. cursor'.line <= Len(files[TheFile]) + Len(buffered)
      BY SMT, <2>1, <3>1
    <3> QED
      BY <1>5, <2>1, <2>2, <3>2 DEF CursorInv
  <2>8. SavedInv'
    BY <1>5, <2>2, SameGrown, SavedKept
  <2> QED
    BY <2>5, <2>6, <2>7, <2>8
<1>8. CASE Receive
  <2>1. /\ queue # << >> /\ batch' = Append(batch, Head(queue)) /\ queue' = Tail(queue) /\ Running /\ Running'
        /\ pc # "closed" /\ pc' # "closed"
        /\ UNCHANGED <<counts, stage, buffered, path, line, curDay, broken, cursor, files, snap>>
    BY <1>8 DEF Receive, Running
  <2>2. queue \in Seq(Records) /\ batch \in Seq(Records)
    BY <1>5 DEF LogInv, LogTypes
  <2>3. Head(queue) \in Records /\ Head(queue) \in Elems(queue) /\ Elems(queue') \subseteq Elems(queue)
    BY <2>1, <2>2, TailFacts
  <2>4. Elems(batch') \subseteq Elems(queue) \cup Elems(batch)
    BY SMT, <2>1, <2>2, <2>3, AppendFacts
  <2>5. CountInv'
    BY <1>5, <2>1, <2>3, <2>4, CountKept
  <2>6. FileInv' /\ CursorInv'
    BY <1>5, <2>1 DEF FileInv, CursorInv
  <2>7. SavedInv'
    BY <1>5, <2>1, SameGrown, SavedKept
  <2> QED
    BY <2>5, <2>6, <2>7
<1>9. CASE FlushTick \/ QueueClosed \/ SnapshotFails \/ Close
  BY <1>5, <1>9, IdleDurable DEF FlushTick, QueueClosed, SnapshotFails, Close, Running
<1>10. CASE AppendHere \/ AppendElsewhere
  BY <1>1, <1>5, <1>10, AppendDurable
<1>11. CASE SyncBatch
  BY <1>5, <1>11, SyncDurable
<1>12. CASE TruncateSnapshot
  <2>1. (FileInv /\ CountInv /\ CursorInv)'
    BY <1>5, <1>12, IdleDurable DEF TruncateSnapshot, Running
  <2>2. Saved' = NoSnapshot /\ files' = files
    BY <1>12 DEF TruncateSnapshot, Saved, CorruptSnapshot, NoSnapshot
  <2>3. NoSnapshot.counts = Uncounted /\ NoSnapshot.cursor = NoCursor
    BY DEF NoSnapshot
  <2>4. Uncounted \in [Records -> Nat] /\ NoCursor \in Cursors /\ NoCursor.line = 0
    BY DEF Uncounted, NoCursor, Cursors
  <2>5. Len(files[TheFile]) \in Nat
    BY SMT, <1>5, OneFileFacts DEF LogInv, LogTypes
  <2>6. SavedInv'
    BY SMT, <2>2, <2>3, <2>4, <2>5 DEF SavedInv
  <2> QED
    BY <2>1, <2>6
<1>13. CASE FillSnapshot
  <2>1. (FileInv /\ CountInv /\ CursorInv)'
    BY <1>5, <1>13, IdleDurable DEF FillSnapshot, Running
  <2>2. Saved' = [state |-> "ok", counts |-> counts, cursor |-> cursor] /\ files' = files /\ pc = "writing"
    BY <1>13 DEF FillSnapshot, Saved
  <2>3. Saved'.counts = counts /\ Saved'.cursor = cursor
    BY <2>2
  <2>4. TheFile \in Paths /\ files[TheFile] \in Seq(Records) /\ Len(buffered) = 0
    BY <1>5, <2>2, OneFileFacts DEF LogInv, LogTypes
  <2>5. cursor.line <= Len(files[TheFile]) /\ cursor \in Cursors /\ counts \in [Records -> Nat]
    <3>1. cursor \in Cursors /\ counts \in [Records -> Nat] /\ cursor.line <= Len(files[TheFile]) + Len(buffered)
      BY <1>5 DEF CursorInv, CountInv
    <3>2. Len(files[TheFile]) \in Nat
      BY SMT, <2>4
    <3>3. Len(files[TheFile]) + Len(buffered) = Len(files[TheFile])
      BY SMT, <2>4, <3>2
    <3> QED
      BY <3>1, <3>3
  <2>6. \A i \in 1..Len(files[TheFile]) : counts[files[TheFile][i]] >= 1
    <3>1. \A i \in 1..Len(files[TheFile]) : files[TheFile][i] \in Records /\ Holds(files, files[TheFile][i])
      BY SMT, <2>4 DEF Holds
    <3> QED
      BY <1>5, <2>2, <3>1 DEF CountInv, Running
  <2>7. SavedInv'
    BY <2>2, <2>3, <2>5, <2>6 DEF SavedInv
  <2> QED
    BY <2>1, <2>7
<1>14. CASE Cleanup
  <2>1. /\ pc = "cleanup" /\ Running /\ Running'
        /\ files' = [p \in Paths |->
                       IF modified[p] < today - RetentionDays /\ p # cursor.path THEN << >> ELSE files[p]]
        /\ UNCHANGED <<counts, stage, queue, batch, buffered, line, curDay, broken, cursor, snap>>
        /\ path' = path \/ (pc' = "closed" /\ path' = NoPath)
        /\ pc' = "closed" \/ path' = path
    BY <1>14 DEF Cleanup, Running
  <2>2. \A p \in Paths : ~(modified[p] < today - RetentionDays)
    <3>1. today = 0 /\ RetentionDays \in Nat /\ \A p \in Paths : modified[p] = 0
      BY <1>5, OneFileFacts, LogAssumption DEF LogInv, LogTypes
    <3>2. ~(0 < 0 - RetentionDays)
      BY SMT, <3>1
    <3> QED
      BY <3>1, <3>2
  <2>3. files' = files
    BY <1>5, <2>1, <2>2 DEF LogInv, LogTypes
  <2>4. FileInv'
    BY <1>5, <2>1, <2>3, OneFileFacts DEF FileInv
  <2>5. CountInv'
    BY <1>5, <2>1, <2>3, CountKept
  <2>6. CursorInv'
    BY <1>5, <2>1, <2>3 DEF CursorInv
  <2>7. SavedInv'
    BY <1>5, <2>1, <2>3, SameGrown, SavedKept
  <2> QED
    BY <2>4, <2>5, <2>6, <2>7
<1>15. CASE Exit
  <2>1. Grown(files', 0)
    BY <1>5, <1>15, SameGrown DEF Exit
  <2> QED
    BY <1>5, <1>15, <2>1, DieDurable DEF Exit
<1>16. ASSUME Crash \/ \E r \in Records : SendOnClosedQueue(r)
       PROVE  (FileInv /\ CountInv /\ CursorInv /\ SavedInv)'
  <2>1. /\ \E lines \in IF broken THEN {<< >>} ELSE Prefixes(buffered) : Write(lines)
        /\ Die
    BY <1>16 DEF Crash, SendOnClosedQueue
  <2>2. \E n \in Nat : Grown(files', n)
    BY <1>5, <2>1, PartGrown
  <2> QED
    BY <1>5, <2>1, <2>2, DieDurable
<1>17. ~NextDay
  <2>1. today = 0
    BY SMT, <1>5, OneFileFacts DEF LogInv, LogTypes
  <2>2. MaxDay = 0
    BY <1>5 DEF OneFile
  <2> QED
    BY SMT, <2>1, <2>2 DEF NextDay
<1>18. ASSUME NEW r \in Records, Finish(r) \/ Count(r) \/ Enqueue(r)
       PROVE  (FileInv /\ CountInv /\ CursorInv /\ SavedInv)'
  <2>1. /\ Running /\ Running'
        /\ UNCHANGED <<batch, buffered, path, line, curDay, broken, cursor, files, snap, pc>>
    BY <1>18 DEF Finish, Count, Enqueue, Running
  <2>2. FileInv' /\ CursorInv'
    BY <1>5, <2>1 DEF FileInv, CursorInv
  <2>3. SavedInv'
    BY <1>5, <2>1, SameGrown, SavedKept
  <2>4. CountInv'
    <3>1. CASE Finish(r)
      <4>1. UNCHANGED <<counts, queue>> /\ stage' = [stage EXCEPT ![r] = "finished"]
        BY <3>1 DEF Finish
      <4>2. \A x \in Records : stage'[x] = "counted" => stage[x] = "counted"
        BY <1>6, <4>1
      <4> QED
        BY <1>5, <2>1, <4>1, <4>2, CountKept
    <3>2. CASE Count(r)
      <4>1. /\ queue' = queue /\ stage' = [stage EXCEPT ![r] = "counted"]
            /\ counts' = [counts EXCEPT ![r] = @ + 1]
        BY <3>2 DEF Count
      <4>2. counts' \in [Records -> Nat] /\ counts'[r] >= 1 /\ \A x \in Records : x # r => counts'[x] = counts[x]
        BY SMT, <1>5, <4>1 DEF CountInv
      <4>3. \A x \in Records : x # r => stage'[x] = stage[x]
        BY <1>6, <4>1
      <4> QED
        BY <1>5, <2>1, <4>1, <4>2, <4>3 DEF CountInv
    <3>3. CASE Enqueue(r)
      <4>1. /\ stage[r] = "counted" /\ counts' = counts
            /\ stage' \in {[stage EXCEPT ![r] = "queued"], [stage EXCEPT ![r] = "dropped"]}
            /\ queue' \in {queue, Append(queue, r)}
        BY <3>3 DEF Enqueue
      <4>2. \A x \in Records : stage'[x] = "counted" => stage[x] = "counted"
        BY <1>6, <4>1
      <4>3. queue \in Seq(Records)
        BY <1>5 DEF LogInv, LogTypes
      <4>4. \A x \in Elems(queue') : x \in Elems(queue) \/ stage[x] = "counted"
        <5>1. Elems(Append(queue, r)) = Elems(queue) \cup {r}
          BY SMT, <4>3, AppendFacts
        <5> QED
          BY <4>1, <5>1
      <4> QED
        BY <1>5, <2>1, <4>1, <4>2, <4>4, CountKept
    <3> QED
      BY <1>18, <3>1, <3>2, <3>3
  <2> QED
    BY <2>2, <2>3, <2>4
<1>19. CASE UNCHANGED vars
  <2>1. FileInv' /\ CountInv' /\ CursorInv'
    BY <1>5, <1>19 DEF vars, FileInv, CountInv, CursorInv, Running
  <2>2. SavedInv'
    BY <1>5, <1>19, SameGrown, SavedKept DEF vars
  <2> QED
    BY <2>1, <2>2
<1> QED
  BY <1>3, <1>7, <1>8, <1>9, <1>10, <1>11, <1>12, <1>13, <1>14, <1>15, <1>16, <1>17, <1>18, <1>19
  DEF Next, Worker, Request

(* As long as the files can be written, a record that flushWriter reported *)
(* as written is counted by every process that runs later: through any     *)
(* number of crashes and restarts, and with any snapshot, whole, torn or   *)
(* missing, recover finds it in the totals or after the cursor             *)
(* (local_file.go recover, replayRecords, writeSnapshot).                  *)
THEOREM DurableCountedCorrect == OneFile /\ Spec => []DurableCounted
<1>1. OneFile /\ Init => DurableInv
  <2> SUFFICES ASSUME OneFile, Init PROVE DurableInv
    OBVIOUS
  <2>1. LogInv
    BY LogInvInit DEF OneFile
  <2>2. /\ stage = [r \in Records |-> "new"] /\ counts = Uncounted /\ queue = << >> /\ batch = << >>
        /\ pc = "down" /\ path = NoPath /\ line = 0 /\ curDay = NoDay /\ buffered = << >>
        /\ broken = FALSE /\ cursor = NoCursor /\ snap = NoSnapshot
        /\ files = [p \in Paths |-> << >>]
    BY DEF Init
  <2>3. Saved = NoSnapshot /\ NoSnapshot.counts = Uncounted /\ NoSnapshot.cursor = NoCursor
    BY <2>2 DEF Saved, NoSnapshot
  <2>4. Uncounted \in [Records -> Nat] /\ NoCursor \in Cursors /\ NoCursor.line = 0
    BY DEF Uncounted, NoCursor, Cursors
  <2>5. TheFile # NoPath /\ files[TheFile] = << >>
    BY <2>2, OneFileFacts
  <2>6. FileInv
    BY <2>2, <2>5 DEF FileInv
  <2>7. CountInv
    BY <2>2, <2>4 DEF CountInv, Running
  <2>8. CursorInv
    BY SMT, <2>2, <2>4, <2>5 DEF CursorInv
  <2>9. SavedInv
    BY SMT, <2>3, <2>4, <2>5 DEF SavedInv
  <2> QED
    BY <2>1, <2>6, <2>7, <2>8, <2>9 DEF DurableInv
<1>2. DurableInv /\ [Next]_vars => DurableInv'
  BY DurableStep
<1>3. DurableInv => DurableCounted
  <2> SUFFICES ASSUME DurableInv, Running, ~faulty, NEW r \in synced PROVE counts[r] >= 1
    BY DEF DurableCounted
  <2>1. r \in Records /\ today = 0 /\ day[r] = 0 /\ RetentionDays \in Nat
    BY OneFileFacts, LogAssumption DEF DurableInv, LogInv, LogTypes
  <2>2. today - RetentionDays <= day[r]
    BY SMT, <2>1
  <2>3. Holds(files, r)
    BY <2>2 DEF DurableInv, LogInv, Kept
  <2> QED
    BY <2>1, <2>3 DEF DurableInv, CountInv
<1> QED
  BY <1>1, <1>2, <1>3, PTL DEF Spec
=============================================================================
