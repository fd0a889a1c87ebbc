----------------------------- MODULE StreamProofs -----------------------------
(***************************************************************************)
(* Proofs about the accounting of a streamed request, for any chunks and   *)
(* any buffers: the usage the client is told of is the usage recorded.     *)
(***************************************************************************)
EXTENDS Streaming, FiniteSetTheorems, TLAPS

(* Zenon finds the proof of a leaf that does not name a prover.            *)
USE Zenon

Listed(s) == s \in Seq(ToSet(s))

(* A sequence of members of any set is a list.                             *)
LEMMA AnyListed ==
  ASSUME NEW S, NEW s \in Seq(S)
  PROVE  Listed(s)
BY SMT DEF Listed, ToSet

(* The positions of a list.                                                *)
LEMMA ListOK ==
  ASSUME NEW s, Listed(s)
  PROVE  /\ Len(s) \in Nat /\ DOMAIN s = 1 .. Len(s)
         /\ s # << >> => Len(s) >= 1
BY SMT DEF Listed

(* Lists of up to three.                                                   *)
LEMMA FewListed ==
  /\ Listed(<< >>) /\ Len(<< >>) = 0
  /\ \A a : Listed(<<a>>) /\ Len(<<a>>) = 1 /\ <<a>>[1] = a
  /\ \A a, b : Listed(<<a, b>>) /\ Len(<<a, b>>) = 2 /\ <<a, b>>[1] = a /\ <<a, b>>[2] = b
  /\ \A a, b, c : /\ Listed(<<a, b, c>>) /\ Len(<<a, b, c>>) = 3
                  /\ <<a, b, c>>[1] = a /\ <<a, b, c>>[2] = b /\ <<a, b, c>>[3] = c
<1>1. << >> \in Seq({})
  BY SMT
<1>2. \A a : <<a>> \in Seq({a})
  BY SMT
<1>3. \A a, b : <<a, b>> \in Seq({a, b})
  BY SMT
<1>4. \A a, b, c : <<a, b, c>> \in Seq({a, b, c})
  BY SMT
<1>5. /\ Listed(<< >>) /\ \A a : Listed(<<a>>) 
      /\ \A a, b : Listed(<<a, b>>)
      /\ \A a, b, c : Listed(<<a, b, c>>)
  BY <1>1, <1>2, <1>3, <1>4, AnyListed
<1> QED BY SMT, <1>5

(* One list after another.                                                 *)
LEMMA JoinOK ==
  ASSUME NEW s, NEW t, Listed(s), Listed(t)
  PROVE  /\ Listed(s \o t) /\ Len(s \o t) = Len(s) + Len(t)
         /\ \A k \in 1 .. Len(s) : (s \o t)[k] = s[k]
         /\ \A k \in 1 .. Len(t) : (s \o t)[Len(s) + k] = t[k]
<1> DEFINE S == ToSet(s) \cup ToSet(t)
<1>1. s \in Seq(ToSet(s)) /\ t \in Seq(ToSet(t))
  BY DEF Listed
<1>2. ToSet(s) \subseteq S /\ ToSet(t) \subseteq S
  OBVIOUS
<1> HIDE DEF S
<1>3. s \in Seq(S) /\ t \in Seq(S)
  BY SMT, <1>1, <1>2
<1>4. /\ s \o t \in Seq(S) /\ Len(s \o t) = Len(s) + Len(t)
      /\ \A k \in 1 .. Len(s) : (s \o t)[k] = s[k]
      /\ \A k \in 1 .. Len(t) : (s \o t)[Len(s) + k] = t[k]
  BY SMT, <1>3
<1>5. Listed(s \o t)
  BY <1>4, AnyListed
<1> QED BY <1>4, <1>5

(* What is left of a list when its first element is taken.                 *)
LEMMA TailOK ==
  ASSUME NEW s, Listed(s), s # << >>
  PROVE  /\ Listed(Tail(s)) /\ Len(Tail(s)) = Len(s) - 1 /\ Head(s) = s[1]
         /\ \A k \in 1 .. Len(s) - 1 : Tail(s)[k] = s[k + 1]
<1>1. s \in Seq(ToSet(s))
  BY DEF Listed
<1>2. Tail(s) \in Seq(ToSet(s))
  BY SMT, <1>1
<1>3. Listed(Tail(s))
  BY <1>2, AnyListed
<1> QED BY SMT, <1>1, <1>3

(* The events that end a message, and those after which nothing counts.    *)
Closing(e) == e.type \in {"end", "message_delta"}

(* v is the usage a reader of the first n events of s knows who knew u.    *)
Reached(u, s, n, v) ==
  \/ v = u /\ \A k \in 1 .. n : s[k].usage = 0
  \/ \E k \in 1 .. n : s[k].usage = v /\ v # 0 /\ \A j \in k + 1 .. n : s[j].usage = 0

Silent(s) == \A k \in 1 .. Len(s) : s[k].usage = 0 /\ ~Closing(s[k])

Unclosed(s) == \A k \in 1 .. Len(s) : ~Closing(s[k])

(* An event that closes the message has the usage known before it, and     *)
(* none follows that says otherwise.                                       *)
Sound(u, s) ==
  \A k \in 1 .. Len(s) : Closing(s[k]) =>
    /\ Reached(u, s, k - 1, s[k].usage)
    /\ \A j \in k + 1 .. Len(s) : s[j].usage = 0 /\ ~Closing(s[j])

Tells(u, s, v) == Listed(s) /\ Sound(u, s) /\ Reached(u, s, Len(s), v)

UsageAfter(u, e) == IF e.usage # 0 THEN e.usage ELSE u

(* A reader takes the first event.                                         *)
LEMMA ReachedTail ==
  ASSUME NEW u, NEW s, Listed(s), s # << >>, NEW n \in 1 .. Len(s), NEW v, Reached(u, s, n, v)
  PROVE  Reached(UsageAfter(u, s[1]), Tail(s), n - 1, v)
<1>1. /\ Len(s) \in Nat /\ n \in Nat /\ n >= 1
      /\ \A k \in 1 .. Len(s) - 1 : Tail(s)[k] = s[k + 1]
  BY SMT, ListOK, TailOK
<1>2. CASE v = u /\ \A k \in 1 .. n : s[k].usage = 0
  <2>1. s[1].usage = 0 /\ \A k \in 1 .. n - 1 : Tail(s)[k].usage = 0
    BY SMT, <1>1, <1>2
  <2> QED BY <1>2, <2>1 DEF Reached, UsageAfter
<1>3. CASE \E k \in 1 .. n : s[k].usage = v /\ v # 0 /\ \A j \in k + 1 .. n : s[j].usage = 0
  <2>1. PICK k \in 1 .. n : s[k].usage = v /\ v # 0 /\ \A j \in k + 1 .. n : s[j].usage = 0
    BY <1>3
  <2>2. CASE k = 1
    <3>1. \A j \in 1 .. n - 1 : Tail(s)[j].usage = 0
      BY SMT, <1>1, <2>1, <2>2
    <3> QED BY <2>1, <2>2, <3>1 DEF Reached, UsageAfter
  <2>3. CASE k # 1
    <3>1. /\ k - 1 \in 1 .. n - 1 /\ Tail(s)[k - 1].usage = v
          /\ \A j \in (k - 1) + 1 .. n - 1 : Tail(s)[j].usage = 0
      BY SMT, <1>1, <2>1, <2>3
    <3> QED BY <2>1, <3>1 DEF Reached
  <2> QED BY <2>2, <2>3
<1> QED BY <1>2, <1>3 DEF Reached

(* What remains is sound, and the first event, if it closes, says what is  *)
(* known and is followed by nothing that counts.                           *)
LEMMA SoundTail ==
  ASSUME NEW u, NEW s, Listed(s), s # << >>, Sound(u, s)
  PROVE  /\ Sound(UsageAfter(u, s[1]), Tail(s))
         /\ Closing(s[1]) => s[1].usage = u /\ Silent(Tail(s))
<1>1. /\ Len(s) \in Nat /\ Len(s) >= 1 /\ Len(Tail(s)) = Len(s) - 1
      /\ \A k \in 1 .. Len(s) - 1 : Tail(s)[k] = s[k + 1]
  BY SMT, ListOK, TailOK
<1>2. ASSUME NEW k \in 1 .. Len(Tail(s)), Closing(Tail(s)[k])
      PROVE  /\ Reached(UsageAfter(u, s[1]), Tail(s), k - 1, Tail(s)[k].usage)
             /\ \A j \in k + 1 .. Len(Tail(s)) : Tail(s)[j].usage = 0 /\ ~Closing(Tail(s)[j])
  <2>1. k + 1 \in 1 .. Len(s) /\ k \in 1 .. Len(s) /\ Tail(s)[k] = s[k + 1] /\ (k + 1) - 1 = k
    BY SMT, <1>1
  <2>2. /\ Reached(u, s, k, s[k + 1].usage)
        /\ \A j \in (k + 1) + 1 .. Len(s) : s[j].usage = 0 /\ ~Closing(s[j])
    BY <1>2, <2>1 DEF Sound
  <2>3. Reached(UsageAfter(u, s[1]), Tail(s), k - 1, Tail(s)[k].usage)
    BY <2>1, <2>2, ReachedTail
  <2>4. \A j \in k + 1 .. Len(Tail(s)) : Tail(s)[j] = s[j + 1] /\ j + 1 \in (k + 1) + 1 .. Len(s)
    BY SMT, <1>1
  <2> QED BY <2>2, <2>3, <2>4
<1>3. ASSUME Closing(s[1]) PROVE s[1].usage = u /\ Silent(Tail(s))
  <2>1. 1 \in 1 .. Len(s) /\ 1 - 1 = 0 /\ 1 .. 0 = {}
    BY SMT, <1>1
  <2>2. Reached(u, s, 0, s[1].usage) /\ \A j \in 1 + 1 .. Len(s) : s[j].usage = 0 /\ ~Closing(s[j])
    BY <1>3, <2>1 DEF Sound
  <2>3. s[1].usage = u
    BY <2>1, <2>2 DEF Reached
  <2>4. \A j \in 1 .. Len(Tail(s)) : Tail(s)[j] = s[j + 1] /\ j + 1 \in 1 + 1 .. Len(s)
    BY SMT, <1>1
  <2> QED BY <2>2, <2>3, <2>4 DEF Silent
<1> QED BY <1>2, <1>3 DEF Sound

(* The first events of a longer list.                                      *)
LEMMA ReachedHead ==
  ASSUME NEW u, NEW s, NEW t, Listed(s), Listed(t), NEW n \in 0 .. Len(s), NEW v
  PROVE  Reached(u, s, n, v) <=> Reached(u, s \o t, n, v)
<1>1. /\ Len(s) \in Nat /\ \A k \in 1 .. Len(s) : (s \o t)[k] = s[k]
  BY ListOK, JoinOK
<1>2. \A k \in 1 .. n : (s \o t)[k] = s[k]
  BY SMT, <1>1
<1>3. \A k \in 1 .. n : \A j \in k + 1 .. n : (s \o t)[j] = s[j]
  BY SMT, <1>2
<1> QED BY <1>2, <1>3 DEF Reached

(* The events of s are read, and then n of those of t.                     *)
LEMMA ReachedJoin ==
  ASSUME NEW u, NEW s, NEW t, Listed(s), Listed(t), NEW n \in 0 .. Len(t), NEW v, NEW w,
         Reached(u, s, Len(s), v), Reached(v, t, n, w)
  PROVE  Reached(u, s \o t, Len(s) + n, w)
<1> DEFINE m == Len(s)
<1>1. /\ m \in Nat /\ n \in Nat /\ Len(t) \in Nat /\ n <= Len(t)
      /\ \A k \in 1 .. m : (s \o t)[k] = s[k]
      /\ \A k \in 1 .. Len(t) : (s \o t)[m + k] = t[k]
  BY SMT, ListOK, JoinOK
<1>2. Reached(u, s, m, v)
  OBVIOUS
<1> HIDE DEF m
<1>3. CASE w = v /\ \A k \in 1 .. n : t[k].usage = 0
  <2>0. \A j \in 1 .. n : j \in 1 .. Len(t)
    BY SMT, <1>1
  <2>1. \A j \in 1 .. n : (s \o t)[m + j].usage = 0
    BY <1>1, <1>3, <2>0
  <2>2. \A j \in m + 1 .. m + n : (s \o t)[j].usage = 0
    <3> SUFFICES ASSUME NEW j \in m + 1 .. m + n
                 PROVE  (s \o t)[j].usage = 0
      OBVIOUS
    <3>1. j - m \in 1 .. n /\ m + (j - m) = j
      BY SMT, <1>1
    <3> QED BY <2>1, <3>1
  <2>3. CASE v = u /\ \A k \in 1 .. m : s[k].usage = 0
    <3>1. \A j \in 1 .. m + n : j \in 1 .. m \/ j \in m + 1 .. m + n
      BY SMT, <1>1
    <3>2. \A j \in 1 .. m + n : (s \o t)[j].usage = 0
      BY <1>1, <2>2, <2>3, <3>1
    <3> QED BY <1>3, <2>3, <3>2 DEF Reached, m
  <2>4. CASE \E k \in 1 .. m : s[k].usage = v /\ v # 0 /\ \A j \in k + 1 .. m : s[j].usage = 0
    <3>1. PICK k \in 1 .. m : s[k].usage = v /\ v # 0 /\ \A j \in k + 1 .. m : s[j].usage = 0
      BY <2>4
    <3>2. /\ k \in 1 .. m + n
          /\ \A j \in k + 1 .. m + n : (j \in k + 1 .. m /\ j \in 1 .. m) \/ j \in m + 1 .. m + n
      BY SMT, <1>1
    <3>3. (s \o t)[k].usage = v /\ \A j \in k + 1 .. m + n : (s \o t)[j].usage = 0
      BY <1>1, <2>2, <3>1, <3>2
    <3> QED BY <1>3, <3>1, <3>2, <3>3 DEF Reached, m
  <2> QED BY <1>2, <2>3, <2>4 DEF Reached
<1>4. CASE \E k \in 1 .. n : t[k].usage = w /\ w # 0 /\ \A j \in k + 1 .. n : t[j].usage = 0
  <2>1. PICK k \in 1 .. n : t[k].usage = w /\ w # 0 /\ \A j \in k + 1 .. n : t[j].usage = 0
    BY <1>4
  <2>2. m + k \in 1 .. m + n /\ k \in 1 .. Len(t)
    BY SMT, <1>1
  <2>3. \A j \in (m + k) + 1 .. m + n : (s \o t)[j].usage = 0
    <3> SUFFICES ASSUME NEW j \in (m + k) + 1 .. m + n
                 PROVE  (s \o t)[j].usage = 0
      OBVIOUS
    <3>1. j - m \in k + 1 .. n /\ m + (j - m) = j /\ j - m \in 1 .. Len(t)
      BY SMT, <1>1
    <3>2. (s \o t)[m + (j - m)] = t[j - m] /\ t[j - m].usage = 0
      BY <1>1, <2>1, <3>1
    <3> QED BY <3>1, <3>2
  <2> QED BY <1>1, <2>1, <2>2, <2>3 DEF Reached, m
<1> QED BY <1>3, <1>4 DEF Reached

(* What is sound goes on soundly if it has not closed the message, or if   *)
(* nothing that counts follows.                                            *)
LEMMA SoundJoin ==
  ASSUME NEW u, NEW s, NEW t, NEW v, Listed(s), Listed(t), Sound(u, s),
         (Unclosed(s) /\ Reached(u, s, Len(s), v) /\ Sound(v, t)) \/ Silent(t)
  PROVE  Sound(u, s \o t)
<1> DEFINE m == Len(s)
<1>1. /\ m \in Nat /\ Len(t) \in Nat /\ Len(s \o t) = m + Len(t)
      /\ \A k \in 1 .. m : (s \o t)[k] = s[k]
      /\ \A k \in 1 .. Len(t) : (s \o t)[m + k] = t[k]
  BY SMT, ListOK, JoinOK
<1>2. \A k \in 1 .. Len(s) : k \in 1 .. m
  OBVIOUS
<1> HIDE DEF m
<1>3. ASSUME NEW k \in 1 .. Len(s \o t), Closing((s \o t)[k])
      PROVE  /\ Reached(u, s \o t, k - 1, (s \o t)[k].usage)
             /\ \A j \in k + 1 .. Len(s \o t) : (s \o t)[j].usage = 0 /\ ~Closing((s \o t)[j])
  <2>1. CASE k \in 1 .. m
    <3>1. Closing(s[k]) /\ k \in 1 .. Len(s)
      BY <1>1, <1>3, <2>1 DEF m
    <3>2. Silent(t)
      BY <3>1 DEF Unclosed
    <3>3. /\ Reached(u, s, k - 1, s[k].usage)
          /\ \A j \in k + 1 .. m : s[j].usage = 0 /\ ~Closing(s[j])
      BY <3>1 DEF Sound, m
    <3>4. k - 1 \in 0 .. Len(s)
      BY SMT, <1>1, <2>1 DEF m
    <3>5. Reached(u, s \o t, k - 1, (s \o t)[k].usage)
      BY <1>1, <2>1, <3>3, <3>4, ReachedHead
    <3>6. ASSUME NEW j \in k + 1 .. Len(s \o t) PROVE (s \o t)[j].usage = 0 /\ ~Closing((s \o t)[j])
      <4>1. CASE j \in 1 .. m
        <5>1. j \in k + 1 .. m
          BY SMT, <1>1, <2>1, <4>1
        <5> QED BY <1>1, <3>3, <4>1, <5>1
      <4>2. CASE ~(j \in 1 .. m)
        <5>1. j - m \in 1 .. Len(t) /\ m + (j - m) = j
          BY SMT, <1>1, <2>1, <4>2
        <5> QED BY <1>1, <3>2, <5>1 DEF Silent
      <4> QED BY <4>1, <4>2
    <3> QED BY <3>5, <3>6
  <2>2. CASE ~(k \in 1 .. m)
    <3> DEFINE i == k - m
    <3>1. i \in 1 .. Len(t) /\ m + i = k /\ i - 1 \in 0 .. Len(t) /\ m + (i - 1) = k - 1
      BY SMT, <1>1, <2>2
    <3> HIDE DEF i
    <3>2. (s \o t)[k] = t[i] /\ Closing(t[i])
      BY <1>1, <1>3, <3>1
    <3>3. Reached(u, s, Len(s), v) /\ Sound(v, t)
      BY <3>1, <3>2 DEF Silent
    <3>4. /\ Reached(v, t, i - 1, t[i].usage)
          /\ \A j \in i + 1 .. Len(t) : t[j].usage = 0 /\ ~Closing(t[j])
      BY <3>1, <3>2, <3>3 DEF Sound
    <3>5. Reached(u, s \o t, Len(s) + (i - 1), t[i].usage)
      BY <3>1, <3>3, <3>4, ReachedJoin
    <3>6. ASSUME NEW j \in k + 1 .. Len(s \o t) PROVE (s \o t)[j].usage = 0 /\ ~Closing((s \o t)[j])
      <4>1. j - m \in i + 1 .. Len(t) /\ m + (j - m) = j /\ j - m \in 1 .. Len(t)
        BY SMT, <1>1, <3>1
      <4> QED BY <1>1, <3>4, <4>1
    <3> QED BY <3>1, <3>2, <3>5, <3>6 DEF m
  <2> QED BY <2>1, <2>2
<1> QED BY <1>3 DEF Sound

(* Events that say nothing of the usage.                                   *)
LEMMA SilentOK ==
  ASSUME NEW s, Listed(s), Silent(s)
  PROVE  /\ Unclosed(s) /\ \A u : Tells(u, s, u)
         /\ \A u, v : Reached(u, s, Len(s), v) => v = u
BY DEF Silent, Unclosed, Tells, Sound, Reached

(* One list of events after another.                                       *)
LEMMA TellsJoin ==
  ASSUME NEW u, NEW s, NEW v, NEW t, NEW w, Tells(u, s, v), Unclosed(s), Tells(v, t, w)
  PROVE  Tells(u, s \o t, w)
<1>1. /\ Listed(s) /\ Listed(t) /\ Sound(u, s) /\ Sound(v, t)
      /\ Reached(u, s, Len(s), v) /\ Reached(v, t, Len(t), w)
  BY DEF Tells
<1>2. Listed(s \o t) /\ Len(s \o t) = Len(s) + Len(t)
  BY <1>1, JoinOK
<1>3. Sound(u, s \o t)
  BY <1>1, SoundJoin
<1>4. Len(t) \in 0 .. Len(t)
  BY SMT, <1>1, ListOK
<1>5. Reached(u, s \o t, Len(s) + Len(t), w)
  BY <1>1, <1>4, ReachedJoin
<1> QED BY <1>2, <1>3, <1>5 DEF Tells

(* Two lists that end no message, one after the other.                     *)
LEMMA UnclosedJoin ==
  ASSUME NEW s, NEW t, Listed(s), Listed(t), Unclosed(s), Unclosed(t)
  PROVE  Unclosed(s \o t)
<1>1. /\ Len(s) \in Nat /\ Len(t) \in Nat /\ Len(s \o t) = Len(s) + Len(t)
      /\ \A k \in 1 .. Len(s) : (s \o t)[k] = s[k]
      /\ \A k \in 1 .. Len(t) : (s \o t)[Len(s) + k] = t[k]
  BY SMT, ListOK, JoinOK
<1>2. ASSUME NEW k \in 1 .. Len(s \o t) PROVE ~Closing((s \o t)[k])
  <2>1. CASE k \in 1 .. Len(s)
    BY <1>1, <2>1 DEF Unclosed
  <2>2. CASE ~(k \in 1 .. Len(s))
    <3>1. k - Len(s) \in 1 .. Len(t) /\ Len(s) + (k - Len(s)) = k
      BY SMT, <1>1, <2>2
    <3> QED BY <1>1, <3>1 DEF Unclosed
  <2> QED BY <2>1, <2>2
<1> QED BY <1>2 DEF Unclosed

(* Two lists of which nothing counts, one after the other.                 *)
LEMMA SilentJoin ==
  ASSUME NEW s, NEW t, Listed(s), Listed(t), Silent(s), Silent(t)
  PROVE  Silent(s \o t)
<1>1. /\ Len(s) \in Nat /\ Len(t) \in Nat /\ Len(s \o t) = Len(s) + Len(t)
      /\ \A k \in 1 .. Len(s) : (s \o t)[k] = s[k]
      /\ \A k \in 1 .. Len(t) : (s \o t)[Len(s) + k] = t[k]
  BY SMT, ListOK, JoinOK
<1>2. ASSUME NEW k \in 1 .. Len(s \o t) PROVE (s \o t)[k].usage = 0 /\ ~Closing((s \o t)[k])
  <2>1. CASE k \in 1 .. Len(s)
    BY <1>1, <2>1 DEF Silent
  <2>2. CASE ~(k \in 1 .. Len(s))
    <3>1. k - Len(s) \in 1 .. Len(t) /\ Len(s) + (k - Len(s)) = k
      BY SMT, <1>1, <2>2
    <3> QED BY <1>1, <3>1 DEF Silent
  <2> QED BY <2>1, <2>2
<1> QED BY <1>2 DEF Silent

(* What is left of silent events, and of events that do not close.         *)
LEMMA QuietTail ==
  ASSUME NEW s, Listed(s), s # << >>
  PROVE  /\ Silent(s) => Silent(Tail(s)) /\ s[1].usage = 0 /\ ~Closing(s[1])
         /\ Unclosed(s) => Unclosed(Tail(s)) /\ ~Closing(s[1])
<1>1. /\ Len(s) \in Nat /\ Len(s) >= 1 /\ Len(Tail(s)) = Len(s) - 1
      /\ \A k \in 1 .. Len(s) - 1 : Tail(s)[k] = s[k + 1]
  BY SMT, ListOK, TailOK
<1>2. 1 \in 1 .. Len(s) /\ \A k \in 1 .. Len(Tail(s)) : k + 1 \in 1 .. Len(s) /\ Tail(s)[k] = s[k + 1]
  BY SMT, <1>1
<1> QED BY <1>2 DEF Silent, Unclosed

(* One event.                                                              *)
LEMMA TellsOne ==
  ASSUME NEW u, NEW e, Closing(e) => e.usage = u
  PROVE  Tells(u, <<e>>, UsageAfter(u, e))
<1>1. Listed(<<e>>) /\ Len(<<e>>) = 1 /\ <<e>>[1] = e
  BY FewListed
<1>2. 1 .. 0 = {} /\ 1 .. 1 = {1} /\ 1 + 1 .. 1 = {} /\ 1 - 1 = 0
  BY SMT
<1>3. Sound(u, <<e>>)
  BY <1>1, <1>2 DEF Sound, Reached
<1>4. Reached(u, <<e>>, 1, UsageAfter(u, e))
  BY <1>1, <1>2 DEF Reached, UsageAfter
<1> QED BY <1>1, <1>3, <1>4 DEF Tells

-----------------------------------------------------------------------------
(* Joining lists, in whichever order.                                      *)
Regroup(a, b, c) == (a \o b) \o c = a \o (b \o c)

(* Lists may be joined in any grouping.                                    *)
LEMMA JoinJoin ==
  ASSUME NEW a, NEW b, NEW c, Listed(a), Listed(b), Listed(c)
  PROVE  Regroup(a, b, c)
<1> DEFINE S == ToSet(a) \cup ToSet(b) \cup ToSet(c)
<1>1. a \in Seq(ToSet(a)) /\ b \in Seq(ToSet(b)) /\ c \in Seq(ToSet(c))
  BY DEF Listed
<1>2. ToSet(a) \subseteq S /\ ToSet(b) \subseteq S /\ ToSet(c) \subseteq S
  OBVIOUS
<1> HIDE DEF S
<1>3. a \in Seq(S) /\ b \in Seq(S) /\ c \in Seq(S)
  BY SMT, <1>1, <1>2
<1> QED BY SMT, <1>3 DEF Regroup

(* Joining the empty list changes nothing.                                 *)
LEMMA JoinEmpty ==
  ASSUME NEW s, Listed(s)
  PROVE  << >> \o s = s /\ s \o << >> = s
<1>1. s \in Seq(ToSet(s))
  BY DEF Listed
<1> QED BY SMT, <1>1

(* The first element of t goes over to s.                                  *)
LEMMA JoinMove ==
  ASSUME NEW s, NEW t, Listed(s), Listed(t), t # << >>
  PROVE  (s \o <<Head(t)>>) \o Tail(t) = s \o t
<1>1. Listed(<<Head(t)>>) /\ Listed(Tail(t))
  BY FewListed, TailOK
<1>2. t \in Seq(ToSet(t))
  BY DEF Listed
<1>3. <<Head(t)>> \o Tail(t) = t
  BY SMT, <1>2
<1>4. Regroup(s, <<Head(t)>>, Tail(t))
  BY <1>1, JoinJoin
<1> QED BY <1>3, <1>4 DEF Regroup

(* The first element of two lists is that of the first list.               *)
LEMMA JoinTail ==
  ASSUME NEW s, NEW t, Listed(s), Listed(t), s # << >>
  PROVE  Tail(s \o t) = Tail(s) \o t /\ (s \o t)[1] = Head(s) /\ s \o t # << >>
<1> DEFINE S == ToSet(s) \cup ToSet(t)
<1>1. s \in Seq(ToSet(s)) /\ t \in Seq(ToSet(t))
  BY DEF Listed
<1>2. ToSet(s) \subseteq S /\ ToSet(t) \subseteq S
  OBVIOUS
<1> HIDE DEF S
<1>3. s \in Seq(S) /\ t \in Seq(S)
  BY SMT, <1>1, <1>2
<1> QED BY SMT, <1>3

-----------------------------------------------------------------------------
(* Events *)

EventFields == {"type", "index", "kind", "data", "usage", "finish"}

RuntimeTypes == {"start", "delta", "tool", "usage", "error", "end"}

BlockTypes == {"message_start", "block_start", "block_delta", "block_stop", "message_delta", "message_stop",
               "usage", "error"}

(* Only three types of events have a usage.                                *)
IsEvent(e, types) ==
  /\ DOMAIN e = EventFields /\ e.type \in types
  /\ e.type \notin {"usage", "end", "message_delta"} => e.usage = 0
  /\ e.type = "usage" => e.usage # 0

EventsIn(s, types) == Listed(s) /\ \A k \in 1 .. Len(s) : IsEvent(s[k], types)

(* Two lists of events, one after the other.                               *)
LEMMA EventsJoin ==
  ASSUME NEW types, NEW s, NEW t, EventsIn(s, types), EventsIn(t, types)
  PROVE  EventsIn(s \o t, types)
<1>1. /\ Listed(s) /\ Listed(t) /\ Len(s) \in Nat /\ Len(t) \in Nat
      /\ Listed(s \o t) /\ Len(s \o t) = Len(s) + Len(t)
      /\ \A k \in 1 .. Len(s) : (s \o t)[k] = s[k]
      /\ \A k \in 1 .. Len(t) : (s \o t)[Len(s) + k] = t[k]
  BY SMT, ListOK, JoinOK DEF EventsIn
<1>2. ASSUME NEW k \in 1 .. Len(s \o t) PROVE IsEvent((s \o t)[k], types)
  <2>1. CASE k \in 1 .. Len(s)
    BY <1>1, <2>1 DEF EventsIn
  <2>2. CASE ~(k \in 1 .. Len(s))
    <3>1. k - Len(s) \in 1 .. Len(t) /\ Len(s) + (k - Len(s)) = k
      BY SMT, <1>1, <2>2
    <3> QED BY <1>1, <3>1 DEF EventsIn
  <2> QED BY <2>1, <2>2
<1> QED BY <1>1, <1>2 DEF EventsIn

(* The head and the rest of a list of events.                              *)
LEMMA EventsTail ==
  ASSUME NEW types, NEW s, EventsIn(s, types), s # << >>
  PROVE  EventsIn(Tail(s), types) /\ IsEvent(Head(s), types)
<1>1. /\ Len(s) \in Nat /\ Len(s) >= 1 /\ Len(Tail(s)) = Len(s) - 1 /\ Listed(Tail(s)) /\ Head(s) = s[1]
      /\ \A k \in 1 .. Len(s) - 1 : Tail(s)[k] = s[k + 1]
  BY SMT, ListOK, TailOK DEF EventsIn
<1>2. 1 \in 1 .. Len(s) /\ \A k \in 1 .. Len(Tail(s)) : k + 1 \in 1 .. Len(s) /\ Tail(s)[k] = s[k + 1]
  BY SMT, <1>1
<1> QED BY <1>1, <1>2 DEF EventsIn

(* Short lists, and those With makes.                                      *)
LEMMA EventsFew ==
  ASSUME NEW types
  PROVE  /\ EventsIn(<< >>, types)
         /\ \A e : IsEvent(e, types) => EventsIn(<<e>>, types)
         /\ \A e, f : IsEvent(e, types) /\ IsEvent(f, types) => EventsIn(<<e, f>>, types)
         /\ \A e, f, g : IsEvent(e, types) /\ IsEvent(f, types) /\ IsEvent(g, types) => EventsIn(<<e, f, g>>, types)
<1>1. 1 .. 0 = {} /\ 1 .. 1 = {1} /\ 1 .. 2 = {1, 2} /\ 1 .. 3 = {1, 2, 3}
  BY SMT
<1>2. EventsIn(<< >>, types)
  BY <1>1, FewListed DEF EventsIn
<1>3. ASSUME NEW e, IsEvent(e, types) PROVE EventsIn(<<e>>, types)
  <2>1. Listed(<<e>>) /\ Len(<<e>>) = 1 /\ <<e>>[1] = e
    BY FewListed
  <2> QED BY <1>1, <1>3, <2>1 DEF EventsIn
<1>4. ASSUME NEW e, NEW f, IsEvent(e, types), IsEvent(f, types) PROVE EventsIn(<<e, f>>, types)
  <2>1. Listed(<<e, f>>) /\ Len(<<e, f>>) = 2 /\ <<e, f>>[1] = e /\ <<e, f>>[2] = f
    BY FewListed
  <2> QED BY <1>1, <1>4, <2>1 DEF EventsIn
<1>5. ASSUME NEW e, NEW f, NEW g, IsEvent(e, types), IsEvent(f, types), IsEvent(g, types)
      PROVE  EventsIn(<<e, f, g>>, types)
  <2>1. /\ Listed(<<e, f, g>>) /\ Len(<<e, f, g>>) = 3
        /\ <<e, f, g>>[1] = e /\ <<e, f, g>>[2] = f /\ <<e, f, g>>[3] = g
    BY FewListed
  <2> QED BY <1>1, <1>5, <2>1 DEF EventsIn
<1> QED BY <1>2, <1>3, <1>4, <1>5

(* Events of other types than the three are silent.                        *)
Dumb(e, types) == IsEvent(e, types) /\ e.type \notin {"usage", "end", "message_delta"}

DumbIn(s, types) == Listed(s) /\ \A k \in 1 .. Len(s) : Dumb(s[k], types)

(* Events without usage that end no message leave the usage as it is.      *)
LEMMA DumbOK ==
  ASSUME NEW types, NEW s, DumbIn(s, types)
  PROVE  EventsIn(s, types) /\ Silent(s) /\ Unclosed(s) /\ \A u : Tells(u, s, u)
<1>1. Listed(s) /\ Silent(s) /\ EventsIn(s, types)
  BY DEF DumbIn, Dumb, IsEvent, EventsIn, Silent, Closing
<1> QED BY <1>1, SilentOK

(* Lists of up to three such events.                                       *)
LEMMA DumbFew ==
  ASSUME NEW types
  PROVE  /\ DumbIn(<< >>, types)
         /\ \A e : Dumb(e, types) => DumbIn(<<e>>, types)
         /\ \A e, f : Dumb(e, types) /\ Dumb(f, types) => DumbIn(<<e, f>>, types)
         /\ \A e, f, g : Dumb(e, types) /\ Dumb(f, types) /\ Dumb(g, types) => DumbIn(<<e, f, g>>, types)
<1>1. 1 .. 0 = {} /\ 1 .. 1 = {1} /\ 1 .. 2 = {1, 2} /\ 1 .. 3 = {1, 2, 3}
  BY SMT
<1>2. DumbIn(<< >>, types)
  BY <1>1, FewListed DEF DumbIn
<1>3. ASSUME NEW e, Dumb(e, types) PROVE DumbIn(<<e>>, types)
  <2>1. Listed(<<e>>) /\ Len(<<e>>) = 1 /\ <<e>>[1] = e
    BY FewListed
  <2> QED BY <1>1, <1>3, <2>1 DEF DumbIn
<1>4. ASSUME NEW e, NEW f, Dumb(e, types), Dumb(f, types) PROVE DumbIn(<<e, f>>, types)
  <2>1. Listed(<<e, f>>) /\ Len(<<e, f>>) = 2 /\ <<e, f>>[1] = e /\ <<e, f>>[2] = f
    BY FewListed
  <2> QED BY <1>1, <1>4, <2>1 DEF DumbIn
<1>5. ASSUME NEW e, NEW f, NEW g, Dumb(e, types), Dumb(f, types), Dumb(g, types)
      PROVE  DumbIn(<<e, f, g>>, types)
  <2>1. /\ Listed(<<e, f, g>>) /\ Len(<<e, f, g>>) = 3
        /\ <<e, f, g>>[1] = e /\ <<e, f, g>>[2] = f /\ <<e, f, g>>[3] = g
    BY FewListed
  <2> QED BY <1>1, <1>5, <2>1 DEF DumbIn
<1> QED BY <1>2, <1>3, <1>4, <1>5

(* Two lists of such events, one after the other.                          *)
LEMMA DumbJoin ==
  ASSUME NEW types, NEW s, NEW t, DumbIn(s, types), DumbIn(t, types)
  PROVE  DumbIn(s \o t, types)
<1>1. /\ Listed(s) /\ Listed(t) /\ Len(s) \in Nat /\ Len(t) \in Nat
      /\ Listed(s \o t) /\ Len(s \o t) = Len(s) + Len(t)
      /\ \A k \in 1 .. Len(s) : (s \o t)[k] = s[k]
      /\ \A k \in 1 .. Len(t) : (s \o t)[Len(s) + k] = t[k]
  BY SMT, ListOK, JoinOK DEF DumbIn
<1>2. ASSUME NEW k \in 1 .. Len(s \o t) PROVE Dumb((s \o t)[k], types)
  <2>1. CASE k \in 1 .. Len(s)
    BY <1>1, <2>1 DEF DumbIn
  <2>2. CASE ~(k \in 1 .. Len(s))
    <3>1. k - Len(s) \in 1 .. Len(t) /\ Len(s) + (k - Len(s)) = k
      BY SMT, <1>1, <2>2
    <3> QED BY <1>1, <3>1 DEF DumbIn
  <2> QED BY <2>1, <2>2
<1> QED BY <1>1, <1>2 DEF DumbIn

(* Such an event, if a condition holds.                                    *)
LEMMA WithDumb ==
  ASSUME NEW types, NEW cond, NEW e, Dumb(e, types)
  PROVE  DumbIn(With(cond, <<e>>), types)
BY DumbFew DEF With

(* Whether a usage is reported or not, the reader knows the last one.      *)
LEMMA WithUsage ==
  ASSUME NEW u, NEW n, NEW cond, cond = (n # 0)
  PROVE  LET s == With(cond, <<UsageEvent(n)>>)
         IN  /\ EventsIn(s, RuntimeTypes) /\ Unclosed(s)
             /\ Tells(u, s, IF n = 0 THEN u ELSE n)
<1> DEFINE e == UsageEvent(n)
           s == With(cond, <<e>>)
<1>1. DOMAIN e = EventFields /\ e.type = "usage" /\ e.usage = n
  BY SMT DEF UsageEvent, Event, EventFields
<1> HIDE DEF e
<1>2. CASE n = 0
  <2>1. s = << >>
    BY <1>2 DEF With
  <2>2. DumbIn(s, RuntimeTypes)
    BY <2>1, DumbFew
  <2>3. EventsIn(s, RuntimeTypes) /\ Unclosed(s) /\ Tells(u, s, u)
    BY <2>2, DumbOK
  <2> QED BY <1>2, <2>3 DEF e
<1>3. CASE n # 0
  <2>1. s = <<e>>
    BY <1>3 DEF With
  <2>2. IsEvent(e, RuntimeTypes) /\ ~Closing(e)
    BY <1>1, <1>3 DEF IsEvent, RuntimeTypes, Closing
  <2>3. EventsIn(s, RuntimeTypes)
    BY <2>1, <2>2, EventsFew
  <2>4. Tells(u, <<e>>, UsageAfter(u, e))
    BY <2>2, TellsOne
  <2>5. UsageAfter(u, e) = n
    BY <1>1, <1>3 DEF UsageAfter
  <2>6. Len(s) = 1 /\ s[1] = e /\ 1 .. 1 = {1}
    BY SMT, <2>1
  <2>7. Unclosed(s)
    BY <2>2, <2>6 DEF Unclosed
  <2> QED BY <1>3, <2>1, <2>3, <2>4, <2>5, <2>7 DEF e
<1> QED BY <1>2, <1>3

DecoderFields == {"started", "text", "args", "usage", "finish"}

(* A chunk: what the decoder says agrees with the usage it keeps.          *)
LEMMA DecodeOK ==
  ASSUME NEW d, DOMAIN d = DecoderFields, NEW c
  PROVE  LET r == DecodeChunk(d, c)
         IN  /\ DOMAIN r.state = DecoderFields
             /\ EventsIn(r.out, RuntimeTypes) /\ Unclosed(r.out) /\ Tells(d.usage, r.out, r.state.usage)
<1> DEFINE said == With(c.usage # 0, <<UsageEvent(c.usage)>>)
           n == IF c.usage = 0 THEN d.usage ELSE c.usage
           r == DecodeChunk(d, c)
<1>1. EventsIn(said, RuntimeTypes) /\ Unclosed(said) /\ Tells(d.usage, said, n)
  BY WithUsage
<1>2. CASE ~c.choice
  <2>1. r.out = said /\ r.state = [d EXCEPT !.usage = IF c.usage = 0 THEN @ ELSE c.usage]
    BY <1>2 DEF DecodeChunk
  <2>2. DOMAIN r.state = DecoderFields /\ r.state.usage = n
    BY SMT, <2>1 DEF DecoderFields
  <2> HIDE DEF said, r, n
  <2> QED BY <1>1, <2>1, <2>2 DEF r
<1>3. CASE c.choice
  <2> DEFINE args == ArgsAfter(d, c)
             delta == [Event("delta") EXCEPT !.kind = "text", !.data = c.text]
             tool == ToolEvent(c.calls[1].index, args[c.calls[1].index])
             s1 == With(~d.started, <<Event("start")>>)
             s2 == With(c.text # << >>, <<delta>>)
             s3 == With(c.calls # << >>, <<tool>>)
  <2>1. /\ r.out = ((s1 \o s2) \o s3) \o said
        /\ r.state = [started |-> TRUE, text |-> d.text \o c.text, args |-> args, usage |-> n,
                      finish |-> finishReason(d, DOMAIN args, c.finish)]
    BY <1>3 DEF DecodeChunk
  <2>2. DOMAIN r.state = DecoderFields /\ r.state.usage = n
    BY SMT, <2>1 DEF DecoderFields
  <2>3. /\ Dumb(Event("start"), RuntimeTypes) /\ Dumb(delta, RuntimeTypes) /\ Dumb(tool, RuntimeTypes)
    <3>1. DOMAIN tool = EventFields /\ tool.type = "tool" /\ tool.usage = 0
      BY SMT DEF ToolEvent, Event, EventFields
    <3>2. DOMAIN delta = EventFields /\ delta.type = "delta" /\ delta.usage = 0
      BY SMT DEF Event, EventFields
    <3>3. DOMAIN Event("start") = EventFields /\ Event("start").type = "start" /\ Event("start").usage = 0
      BY SMT DEF Event, EventFields
    <3> HIDE DEF tool, delta
    <3> QED BY <3>1, <3>2, <3>3 DEF Dumb, IsEvent, RuntimeTypes
  <2> HIDE DEF delta, tool, args
  <2>4. DumbIn(s1, RuntimeTypes) /\ DumbIn(s2, RuntimeTypes) /\ DumbIn(s3, RuntimeTypes)
    BY <2>3, WithDumb
  <2> HIDE DEF s1, s2, s3, r, n, said
  <2>5. DumbIn((s1 \o s2) \o s3, RuntimeTypes)
    BY <2>4, DumbJoin
  <2> DEFINE s == (s1 \o s2) \o s3
  <2>6. EventsIn(s, RuntimeTypes) /\ Listed(s) /\ Unclosed(s) /\ Tells(d.usage, s, d.usage)
    BY <2>5, DumbOK DEF EventsIn
  <2> HIDE DEF s
  <2>7. Listed(said)
    BY <1>1 DEF EventsIn
  <2>8. EventsIn(s \o said, RuntimeTypes) /\ Unclosed(s \o said)
    BY <1>1, <2>6, <2>7, EventsJoin, UnclosedJoin
  <2>9. Tells(d.usage, s \o said, n)
    BY <1>1, <2>6, TellsJoin
  <2> QED BY <2>1, <2>2, <2>8, <2>9 DEF s, r
<1> QED BY <1>2, <1>3

(* The end: its event is the last, and has the usage said before it.       *)
LEMMA DecodeEndOK ==
  ASSUME NEW d, NEW estimate
  PROVE  LET s == DecodeEnd(d, estimate)
         IN  EventsIn(s, RuntimeTypes) /\ \E w : Tells(d.usage, s, w)
<1> DEFINE estimated == d.usage = 0 /\ estimate # 0 /\ (d.text # << >> \/ DOMAIN d.args # {})
           usage == IF estimated THEN estimate ELSE d.usage
           end == [Event("end") EXCEPT !.usage = usage, !.finish = d.finish]
           s1 == With(~d.started, <<Event("start")>>)
           s2 == With(estimated, <<UsageEvent(usage)>>)
<1>1. DecodeEnd(d, estimate) = (s1 \o s2) \o <<end>>
  BY DEF DecodeEnd
<1>2. Dumb(Event("start"), RuntimeTypes)
  BY SMT DEF Dumb, IsEvent, RuntimeTypes, Event, EventFields
<1>3. DumbIn(s1, RuntimeTypes)
  BY <1>2, WithDumb
<1>4. EventsIn(s1, RuntimeTypes) /\ Listed(s1) /\ Unclosed(s1) /\ Tells(d.usage, s1, d.usage)
  BY <1>3, DumbOK DEF EventsIn
<1>5. EventsIn(s2, RuntimeTypes) /\ Unclosed(s2) /\ Tells(d.usage, s2, usage)
  <2>1. CASE estimated
    <3>1. estimated = (usage # 0) /\ usage # 0
      BY <2>1
    <3> HIDE DEF estimated, usage
    <3> QED BY <3>1, WithUsage
  <2>2. CASE ~estimated
    <3>1. s2 = << >> /\ usage = d.usage
      BY <2>2 DEF With
    <3> HIDE DEF s2, usage
    <3>2. DumbIn(s2, RuntimeTypes)
      BY <3>1, DumbFew
    <3> QED BY <3>1, <3>2, DumbOK
  <2> QED BY <2>1, <2>2
<1>6. DOMAIN end = EventFields /\ end.type = "end" /\ end.usage = usage
  BY SMT DEF Event, EventFields
<1> HIDE DEF end, s1, s2, usage
<1>7. IsEvent(end, RuntimeTypes)
  BY <1>6 DEF IsEvent, RuntimeTypes
<1>8. EventsIn(<<end>>, RuntimeTypes) /\ Tells(usage, <<end>>, UsageAfter(usage, end))
  BY <1>6, <1>7, EventsFew, TellsOne
<1>9. Listed(s2) /\ Listed(<<end>>)
  BY <1>5, <1>8 DEF EventsIn
<1>10. EventsIn(s1 \o s2, RuntimeTypes) /\ Unclosed(s1 \o s2)
  BY <1>4, <1>5, <1>9, EventsJoin, UnclosedJoin
<1>11. Tells(d.usage, s1 \o s2, usage)
  BY <1>4, <1>5, TellsJoin
<1>12. Tells(d.usage, (s1 \o s2) \o <<end>>, UsageAfter(usage, end))
  BY <1>8, <1>10, <1>11, TellsJoin
<1>13. EventsIn((s1 \o s2) \o <<end>>, RuntimeTypes)
  BY <1>8, <1>10, EventsJoin
<1> QED BY <1>1, <1>12, <1>13

(* An answer that came whole.                                              *)
LEMMA ResponseOK ==
  ASSUME NEW r, Listed(r.parts), Listed(r.calls)
  PROVE  LET s == streamResponse(r)
         IN  EventsIn(s, RuntimeTypes) /\ \E w : Tells(0, s, w)
<1> DEFINE start == <<Event("start")>>
           said == With(r.usage # 0, <<UsageEvent(r.usage)>>)
           parts == [k \in DOMAIN r.parts |-> [Event("delta") EXCEPT !.kind = r.parts[k].kind, !.data = r.parts[k].data]]
           calls == [k \in DOMAIN r.calls |-> [Event("tool") EXCEPT !.index = k - 1, !.data = r.calls[k]]]
           end == [Event("end") EXCEPT !.usage = r.usage, !.finish = r.finish]
           s1 == start \o said
           s2 == s1 \o parts
           s3 == s2 \o calls
<1>1. streamResponse(r) = s3 \o <<end>>
  BY DEF streamResponse
<1>2. DumbIn(start, RuntimeTypes)
  <2>1. Dumb(Event("start"), RuntimeTypes)
    BY SMT DEF Dumb, IsEvent, RuntimeTypes, Event, EventFields
  <2> QED BY <2>1, DumbFew
<1>3. DumbIn(parts, RuntimeTypes)
  <2>1. Len(r.parts) \in Nat /\ DOMAIN r.parts = 1 .. Len(r.parts)
    BY ListOK
  <2>2. ASSUME NEW k \in DOMAIN r.parts PROVE Dumb(parts[k], RuntimeTypes)
    <3>1. parts[k] = [Event("delta") EXCEPT !.kind = r.parts[k].kind, !.data = r.parts[k].data]
      OBVIOUS
    <3> HIDE DEF parts
    <3> QED BY SMT, <3>1 DEF Dumb, IsEvent, RuntimeTypes, Event, EventFields
  <2>3. DOMAIN parts = 1 .. Len(r.parts)
    BY <2>1
  <2> DEFINE P == {parts[k] : k \in 1 .. Len(r.parts)}
  <2>4. parts \in [1 .. Len(r.parts) -> P]
    BY <2>1
  <2> HIDE DEF parts, P
  <2>5. parts \in Seq(P) /\ Len(parts) = Len(r.parts)
    BY SMT, <2>1, <2>4
  <2>6. Listed(parts)
    BY <2>5, AnyListed
  <2> QED BY <2>1, <2>2, <2>5, <2>6 DEF DumbIn
<1>4. DumbIn(calls, RuntimeTypes)
  <2>1. Len(r.calls) \in Nat /\ DOMAIN r.calls = 1 .. Len(r.calls)
    BY ListOK
  <2>2. ASSUME NEW k \in DOMAIN r.calls PROVE Dumb(calls[k], RuntimeTypes)
    <3>1. calls[k] = [Event("tool") EXCEPT !.index = k - 1, !.data = r.calls[k]]
      OBVIOUS
    <3> HIDE DEF calls
    <3> QED BY SMT, <3>1 DEF Dumb, IsEvent, RuntimeTypes, Event, EventFields
  <2> DEFINE P == {calls[k] : k \in 1 .. Len(r.calls)}
  <2>4. calls \in [1 .. Len(r.calls) -> P]
    BY <2>1
  <2> HIDE DEF calls, P
  <2>5. calls \in Seq(P) /\ Len(calls) = Len(r.calls)
    BY SMT, <2>1, <2>4
  <2>6. Listed(calls)
    BY <2>5, AnyListed
  <2> QED BY <2>1, <2>2, <2>5, <2>6 DEF DumbIn
<1>5. EventsIn(said, RuntimeTypes) /\ Unclosed(said) /\ Tells(0, said, r.usage)
  <2>1. (IF r.usage = 0 THEN 0 ELSE r.usage) = r.usage
    OBVIOUS
  <2>2. EventsIn(said, RuntimeTypes) /\ Unclosed(said) /\ Tells(0, said, IF r.usage = 0 THEN 0 ELSE r.usage)
    BY WithUsage
  <2> QED BY <2>1, <2>2
<1>6. IsEvent(end, RuntimeTypes) /\ end.type = "end" /\ end.usage = r.usage
  BY SMT DEF IsEvent, RuntimeTypes, Event, EventFields
<1> HIDE DEF start, said, parts, calls, end
<1>7. /\ EventsIn(start, RuntimeTypes) /\ Listed(start) /\ Unclosed(start) /\ Tells(0, start, 0)
      /\ EventsIn(parts, RuntimeTypes) /\ Listed(parts) /\ Unclosed(parts) /\ Tells(r.usage, parts, r.usage)
      /\ EventsIn(calls, RuntimeTypes) /\ Listed(calls) /\ Unclosed(calls) /\ Tells(r.usage, calls, r.usage)
      /\ Listed(said)
  BY <1>2, <1>3, <1>4, <1>5, DumbOK DEF EventsIn
<1>8. Listed(s1) /\ EventsIn(s1, RuntimeTypes) /\ Unclosed(s1) /\ Tells(0, s1, r.usage)
  BY <1>5, <1>7, JoinOK, EventsJoin, UnclosedJoin, TellsJoin
<1> HIDE DEF s1
<1>9. Listed(s2) /\ EventsIn(s2, RuntimeTypes) /\ Unclosed(s2) /\ Tells(0, s2, r.usage)
  BY <1>7, <1>8, JoinOK, EventsJoin, UnclosedJoin, TellsJoin
<1> HIDE DEF s2
<1>10. Listed(s3) /\ EventsIn(s3, RuntimeTypes) /\ Unclosed(s3) /\ Tells(0, s3, r.usage)
  BY <1>7, <1>9, JoinOK, EventsJoin, UnclosedJoin, TellsJoin
<1> HIDE DEF s3
<1>11. EventsIn(<<end>>, RuntimeTypes) /\ Tells(r.usage, <<end>>, UsageAfter(r.usage, end))
  BY <1>6, EventsFew, TellsOne
<1>12. EventsIn(s3 \o <<end>>, RuntimeTypes) /\ Tells(0, s3 \o <<end>>, UsageAfter(r.usage, end))
  BY <1>10, <1>11, EventsJoin, TellsJoin
<1> QED BY <1>1, <1>12

-----------------------------------------------------------------------------
(* The codecs *)

BlockFields == {"text", "next", "tools"}

(* An event of a content block has no usage.                               *)
LEMMA BlockDumb ==
  ASSUME NEW type \in BlockTypes \ {"usage", "message_delta"}, NEW i, NEW kind, NEW data
  PROVE  Dumb(Block(type, i, kind, data), BlockTypes)
BY SMT DEF Dumb, IsEvent, BlockTypes, Block, Event, EventFields

(* The end of a text block has no usage.                                   *)
LEMMA StopTextOK ==
  ASSUME NEW b
  PROVE  DumbIn(StopText(b), BlockTypes)
<1>1. Dumb(Block("block_stop", b.text, "", << >>), BlockTypes)
  BY BlockDumb DEF BlockTypes
<1> QED BY <1>1, WithDumb DEF StopText

(* One more tool block.                                                    *)
LEMMA ToolsFinite ==
  ASSUME NEW tools, IsFiniteSet(Range(tools)), NEW x, NEW i
  PROVE  IsFiniteSet(Range(Put(tools, x, i)))
<1>1. Range(Put(tools, x, i)) \subseteq Range(tools) \cup {i}
  BY DEF Range, Put
<1>2. IsFiniteSet(Range(tools) \cup {i})
  BY FS_AddElement
<1> QED BY <1>1, <1>2, FS_Subset

(* What the blocks of an event say is what the event says.                 *)
Carries(s, e, types) ==
  /\ EventsIn(s, types)
  /\ ~Closing(e) => Unclosed(s)
  /\ \A u : (Closing(e) => e.usage = u) => Tells(u, s, UsageAfter(u, e))

(* An event without usage may become any events without usage.             *)
LEMMA DumbCarries ==
  ASSUME NEW e, Dumb(e, RuntimeTypes), NEW s, DumbIn(s, BlockTypes)
  PROVE  Carries(s, e, BlockTypes)
<1>1. e.usage = 0
  BY DEF Dumb, IsEvent
<1>2. \A u : UsageAfter(u, e) = u
  BY <1>1 DEF UsageAfter
<1> QED BY <1>2, DumbOK DEF Carries

(* EventStreamFromRuntime: the block events of a text or JSON delta.       *)
LEMMA DeltaBlockOK ==
  ASSUME NEW b, DOMAIN b = BlockFields, NEW e
  PROVE  LET r == DeltaBlock(b, e)
         IN  DOMAIN r.state = BlockFields /\ r.state.tools = b.tools /\ DumbIn(r.out, BlockTypes)
<1> DEFINE r == DeltaBlock(b, e)
<1>0. \A type \in {"block_start", "block_delta", "block_stop"} : \A i, kind, data :
        Dumb(Block(type, i, kind, data), BlockTypes)
  BY BlockDumb DEF BlockTypes
<1>1. CASE e.kind = "json"
  <2> DEFINE x == Block("block_start", b.next, "json", e.data)
             y == Block("block_delta", b.next, "json", e.data)
             z == Block("block_stop", b.next, "", << >>)
  <2>1. r.out = StopText(b) \o <<x, y, z>> /\ r.state = [b EXCEPT !.text = NoText, !.next = @ + 1]
    BY <1>1 DEF DeltaBlock
  <2>2. DOMAIN r.state = BlockFields /\ r.state.tools = b.tools
    BY <2>1 DEF BlockFields
  <2>3. Dumb(x, BlockTypes) /\ Dumb(y, BlockTypes) /\ Dumb(z, BlockTypes)
    BY <1>0
  <2> HIDE DEF x, y, z, r
  <2>4. DumbIn(<<x, y, z>>, BlockTypes)
    BY <2>3, DumbFew
  <2>5. DumbIn(StopText(b) \o <<x, y, z>>, BlockTypes)
    BY <2>4, StopTextOK, DumbJoin
  <2>6. DumbIn(r.out, BlockTypes)
    BY <2>1, <2>5
  <2> QED BY <2>2, <2>6 DEF r
<1>2. CASE e.kind # "json"
  <2> DEFINE new == b.text = NoText
             i == IF new THEN b.next ELSE b.text
             x == Block("block_start", i, "text", << >>)
             y == Block("block_delta", i, "text", e.data)
  <2>1. /\ r.out = With(new, <<x>>) \o <<y>>
        /\ r.state = [b EXCEPT !.text = i, !.next = IF new THEN @ + 1 ELSE @]
    BY SMT, <1>2 DEF DeltaBlock
  <2>2. DOMAIN r.state = BlockFields /\ r.state.tools = b.tools
    BY SMT, <2>1 DEF BlockFields
  <2>3. Dumb(x, BlockTypes) /\ Dumb(y, BlockTypes)
    BY <1>0
  <2> HIDE DEF new, x, y, r
  <2>4. DumbIn(With(new, <<x>>), BlockTypes) /\ DumbIn(<<y>>, BlockTypes)
    BY <2>3, WithDumb, DumbFew
  <2>5. DumbIn(With(new, <<x>>) \o <<y>>, BlockTypes)
    BY <2>4, DumbJoin
  <2>6. DumbIn(r.out, BlockTypes)
    BY <2>1, <2>5
  <2> QED BY <2>2, <2>6 DEF r
<1> QED BY <1>1, <1>2

(* EventStreamFromRuntime: the block events of a tool call.                *)
LEMMA ToolBlockOK ==
  ASSUME NEW b, DOMAIN b = BlockFields, IsFiniteSet(Range(b.tools)), NEW e
  PROVE  LET r == ToolBlock(b, e)
         IN  DOMAIN r.state = BlockFields /\ IsFiniteSet(Range(r.state.tools)) /\ DumbIn(r.out, BlockTypes)
<1> DEFINE r == ToolBlock(b, e)
           new == e.index \notin DOMAIN b.tools
           i == IF new THEN b.next ELSE b.tools[e.index]
           x == Block("block_start", i, "tool", <<e.index>>)
           y == Block("block_delta", i, "tool", e.data)
<1>1. /\ r.out = (StopText(b) \o With(new, <<x>>)) \o <<y>>
      /\ r.state = [b EXCEPT !.next = IF new THEN @ + 1 ELSE @,
                             !.tools = IF new THEN Put(@, e.index, i) ELSE @, !.text = NoText]
  BY SMT DEF ToolBlock
<1>2. DOMAIN r.state = BlockFields /\ r.state.tools = IF new THEN Put(b.tools, e.index, i) ELSE b.tools
  BY SMT, <1>1 DEF BlockFields
<1>3. Dumb(x, BlockTypes) /\ Dumb(y, BlockTypes)
  BY BlockDumb DEF BlockTypes
<1> HIDE DEF new, x, y, r, i
<1>4. DumbIn(With(new, <<x>>), BlockTypes) /\ DumbIn(<<y>>, BlockTypes)
  BY <1>3, WithDumb, DumbFew
<1>5. DumbIn(StopText(b) \o With(new, <<x>>), BlockTypes)
  BY <1>4, StopTextOK, DumbJoin
<1>7. DumbIn((StopText(b) \o With(new, <<x>>)) \o <<y>>, BlockTypes)
  BY <1>4, <1>5, DumbJoin
<1>8. DumbIn(r.out, BlockTypes)
  BY <1>1, <1>7
<1>6. IsFiniteSet(Range(r.state.tools))
  BY <1>2, ToolsFinite
<1> QED BY <1>2, <1>6, <1>8 DEF r

(* The end of the message: the usage of the end, and nothing after it.     *)
LEMMA EndBlocksOK ==
  ASSUME NEW e, e.type = "end", NEW x, NEW y, EventsIn(x, BlockTypes), DumbIn(x, BlockTypes),
         IsEvent(y, BlockTypes), y.type = "message_delta", y.usage = e.usage,
         NEW z, Dumb(z, BlockTypes)
  PROVE  Carries(x \o <<y, z>>, e, BlockTypes)
<1> DEFINE t == <<y, z>>
<1>1. Listed(t) /\ Len(t) = 2 /\ t[1] = y /\ t[2] = z
  BY FewListed
<1>2. IsEvent(z, BlockTypes) /\ z.usage = 0 /\ ~Closing(z) /\ Closing(y)
  BY DEF Dumb, IsEvent, Closing
<1>3. EventsIn(t, BlockTypes)
  BY <1>2, EventsFew
<1> HIDE DEF t
<1>4. EventsIn(x \o t, BlockTypes)
  BY <1>3, EventsJoin
<1>5. Closing(e)
  BY DEF Closing
<1>6. 1 .. 0 = {} /\ 1 .. 2 = {1, 2} /\ 1 + 1 .. 2 = {2} /\ 2 + 1 .. 2 = {} /\ 1 - 1 = 0
  BY SMT
<1>7. ASSUME NEW u, e.usage = u PROVE Tells(u, x \o t, UsageAfter(u, e))
  <2>1. Reached(u, t, 0, u)
    BY <1>6 DEF Reached
  <2>2. ASSUME NEW k \in 1 .. 2, Closing(t[k])
        PROVE  Reached(u, t, k - 1, t[k].usage) /\ \A j \in k + 1 .. 2 : t[j].usage = 0 /\ ~Closing(t[j])
    <3>1. k = 1
      BY <1>1, <1>2, <1>6, <2>2
    <3> QED BY <1>1, <1>2, <1>6, <1>7, <2>1, <3>1
  <2>3. Sound(u, t)
    BY <1>1, <2>2 DEF Sound
  <2>4. Reached(u, t, 2, u)
    <3>1. CASE u = 0
      BY <1>1, <1>2, <1>6, <1>7, <3>1 DEF Reached
    <3>2. CASE u # 0
      <4>1. 1 \in 1 .. 2 /\ t[1].usage = u /\ \A j \in 1 + 1 .. 2 : t[j].usage = 0
        BY <1>1, <1>2, <1>6, <1>7
      <4> QED BY <3>2, <4>1 DEF Reached
    <3> QED BY <3>1, <3>2
  <2>5. Tells(u, t, u)
    BY <1>1, <2>3, <2>4 DEF Tells
  <2>6. Unclosed(x) /\ Tells(u, x, u)
    BY DumbOK
  <2>7. UsageAfter(u, e) = u
    BY <1>7 DEF UsageAfter
  <2> QED BY <2>5, <2>6, <2>7, TellsJoin
<1> QED BY <1>4, <1>5, <1>7 DEF Carries, t

(* EventStreamFromRuntime, one event.                                      *)
LEMMA BlocksOK ==
  ASSUME NEW b, DOMAIN b = BlockFields, IsFiniteSet(Range(b.tools)), NEW e, IsEvent(e, RuntimeTypes),
         NEW order, Listed(order)
  PROVE  LET r == BlockEvents(b, e, order)
         IN  DOMAIN r.state = BlockFields /\ IsFiniteSet(Range(r.state.tools)) /\ Carries(r.out, e, BlockTypes)
<1> DEFINE r == BlockEvents(b, e, order)
<1>1. CASE e.type = "start"
  <2>1. r.state = b /\ r.out = <<Event("message_start")>>
    BY <1>1 DEF BlockEvents
  <2>2. Dumb(e, RuntimeTypes)
    BY <1>1 DEF Dumb
  <2>3. Dumb(Event("message_start"), BlockTypes)
    BY SMT DEF Dumb, IsEvent, BlockTypes, Event, EventFields
  <2>4. DumbIn(<<Event("message_start")>>, BlockTypes)
    BY <2>3, DumbFew
  <2> QED BY <2>1, <2>2, <2>4, DumbCarries
<1>2. CASE e.type = "delta"
  <2>1. r = DeltaBlock(b, e)
    BY <1>2 DEF BlockEvents
  <2>2. Dumb(e, RuntimeTypes)
    BY <1>2 DEF Dumb
  <2> HIDE DEF r
  <2>3. DOMAIN r.state = BlockFields /\ r.state.tools = b.tools /\ DumbIn(r.out, BlockTypes)
    BY <2>1, DeltaBlockOK
  <2> QED BY <2>2, <2>3, DumbCarries DEF r
<1>3. CASE e.type = "tool"
  <2>1. r = ToolBlock(b, e)
    BY <1>3 DEF BlockEvents
  <2>2. Dumb(e, RuntimeTypes)
    BY <1>3 DEF Dumb
  <2>3. DOMAIN r.state = BlockFields /\ IsFiniteSet(Range(r.state.tools)) /\ DumbIn(r.out, BlockTypes)
    BY <2>1, ToolBlockOK
  <2> HIDE DEF r
  <2> QED BY <2>2, <2>3, DumbCarries DEF r
<1>4. CASE e.type = "usage" \/ e.type = "error"
  <2>1. r.state = b /\ r.out = <<e>>
    BY <1>4 DEF BlockEvents
  <2>2. ~Closing(e) /\ IsEvent(e, BlockTypes)
    BY <1>4 DEF Closing, IsEvent, BlockTypes
  <2>3. EventsIn(<<e>>, BlockTypes) /\ \A u : Tells(u, <<e>>, UsageAfter(u, e))
    BY <2>2, EventsFew, TellsOne
  <2>4. Unclosed(<<e>>)
    <3>1. Len(<<e>>) = 1 /\ <<e>>[1] = e /\ 1 .. 1 = {1}
      BY SMT
    <3> QED BY <2>2, <3>1 DEF Unclosed
  <2> QED BY <2>1, <2>3, <2>4 DEF Carries
<1>5. CASE e.type = "end"
  <2> DEFINE stops == [k \in DOMAIN order |-> Block("block_stop", order[k], "", << >>)]
             y == [Event("message_delta") EXCEPT !.usage = e.usage, !.finish = StopReasonFromRuntime(e.finish)]
             z == [Event("message_stop") EXCEPT !.finish = StopReasonFromRuntime(e.finish)]
             x == StopText(b) \o stops
  <2>1. r.state = [b EXCEPT !.text = NoText, !.tools = << >>] /\ r.out = x \o <<y, z>>
    BY <1>5 DEF BlockEvents
  <2>2. DOMAIN r.state = BlockFields /\ r.state.tools = << >>
    BY <2>1 DEF BlockFields
  <2>3. IsFiniteSet(Range(r.state.tools))
    <3>1. Range(<< >>) = {}
      BY SMT DEF Range
    <3>2. IsFiniteSet({})
      BY FS_EmptySet
    <3> QED BY <2>2, <3>1, <3>2
  <2>4. DumbIn(stops, BlockTypes)
    <3>1. Len(order) \in Nat /\ DOMAIN order = 1 .. Len(order)
      BY ListOK
    <3>2. \A k \in DOMAIN order : stops[k] = Block("block_stop", order[k], "", << >>)
      OBVIOUS
    <3> DEFINE P == {stops[k] : k \in 1 .. Len(order)}
    <3>3. stops \in [1 .. Len(order) -> P]
      BY <3>1
    <3> HIDE DEF stops, P
    <3>4. stops \in Seq(P) /\ Len(stops) = Len(order)
      BY SMT, <3>1, <3>3
    <3>5. Listed(stops)
      BY <3>4, AnyListed
    <3>6. \A k \in DOMAIN order : Dumb(stops[k], BlockTypes)
      BY <3>2, BlockDumb DEF BlockTypes
    <3> QED BY <3>1, <3>4, <3>5, <3>6 DEF DumbIn
  <2>5. /\ DOMAIN y = EventFields /\ y.type = "message_delta" /\ y.usage = e.usage
        /\ DOMAIN z = EventFields /\ z.type = "message_stop" /\ z.usage = 0
    BY SMT DEF Event, EventFields
  <2> HIDE DEF stops, y, z
  <2>6. DumbIn(x, BlockTypes)
    BY <2>4, StopTextOK, DumbJoin
  <2>7. IsEvent(y, BlockTypes) /\ Dumb(z, BlockTypes)
    BY <2>5 DEF IsEvent, Dumb, BlockTypes
  <2> HIDE DEF x
  <2>8. EventsIn(x, BlockTypes)
    BY <2>6, DumbOK
  <2>9. Carries(x \o <<y, z>>, e, BlockTypes)
    BY <1>5, <2>5, <2>6, <2>7, <2>8, EndBlocksOK
  <2> QED BY <2>1, <2>2, <2>3, <2>9
<1>6. e.type \in RuntimeTypes
  BY DEF IsEvent
<1> QED BY <1>1, <1>2, <1>3, <1>4, <1>5, <1>6 DEF RuntimeTypes

ToldTypes == {"message_delta", "completed"}

(* The frames s tell of the usage only if closing holds, and then of u.    *)
Frame(s, closing, u) ==
  Listed(s) /\ \A k \in 1 .. Len(s) : s[k].type \in ToldTypes => closing /\ s[k].usage = u

(* Frames after frames.                                                    *)
LEMMA FrameJoin ==
  ASSUME NEW closing, NEW u, NEW s, NEW t, Frame(s, closing, u), Frame(t, closing, u)
  PROVE  Frame(s \o t, closing, u)
<1>1. /\ Listed(s) /\ Listed(t) /\ Len(s) \in Nat /\ Len(t) \in Nat
      /\ Listed(s \o t) /\ Len(s \o t) = Len(s) + Len(t)
      /\ \A k \in 1 .. Len(s) : (s \o t)[k] = s[k]
      /\ \A k \in 1 .. Len(t) : (s \o t)[Len(s) + k] = t[k]
  BY SMT, ListOK, JoinOK DEF Frame
<1>2. ASSUME NEW k \in 1 .. Len(s \o t), (s \o t)[k].type \in ToldTypes
      PROVE  closing /\ (s \o t)[k].usage = u
  <2>1. CASE k \in 1 .. Len(s)
    BY <1>1, <1>2, <2>1 DEF Frame
  <2>2. CASE ~(k \in 1 .. Len(s))
    <3>1. k - Len(s) \in 1 .. Len(t) /\ Len(s) + (k - Len(s)) = k
      BY SMT, <1>1, <2>2
    <3>2. (s \o t)[k] = t[k - Len(s)]
      BY <1>1, <3>1
    <3> QED BY <1>2, <3>1, <3>2 DEF Frame
  <2> QED BY <2>1, <2>2
<1> QED BY <1>1, <1>2 DEF Frame

(* No frame, and one.                                                      *)
LEMMA FrameFew ==
  ASSUME NEW closing, NEW u
  PROVE  /\ Frame(<< >>, closing, u)
         /\ \A e : (e.type \in ToldTypes => closing /\ e.usage = u) => Frame(<<e>>, closing, u)
<1>1. 1 .. 0 = {} /\ 1 .. 1 = {1}
  BY SMT
<1>2. Frame(<< >>, closing, u)
  BY <1>1, FewListed DEF Frame
<1>3. ASSUME NEW e, e.type \in ToldTypes => closing /\ e.usage = u PROVE Frame(<<e>>, closing, u)
  <2>1. Listed(<<e>>) /\ Len(<<e>>) = 1 /\ <<e>>[1] = e
    BY FewListed
  <2> QED BY <1>1, <1>3, <2>1 DEF Frame
<1> QED BY <1>2, <1>3

FrameFields == {"started", "sent", "usage"}

(* anthropicStreamFramesFromEventStream, one event.                        *)
LEMMA AnthropicOK ==
  ASSUME NEW f, DOMAIN f = FrameFields, NEW e, IsEvent(e, BlockTypes)
  PROVE  LET r == AnthropicFrames(f, e)
         IN  /\ DOMAIN r.state = FrameFields /\ r.state.usage = UsageAfter(f.usage, e)
             /\ Frame(r.out, Closing(e), UsageAfter(f.usage, e))
<1> DEFINE usage == IF e.usage # 0 THEN e.usage ELSE f.usage
           start == [Event("message_start") EXCEPT !.usage = usage]
           head == With(~f.started /\ e.type # "message_start", <<start>>)
           sent == IF e.index \in DOMAIN f.sent THEN f.sent[e.index] ELSE << >>
           next == [f EXCEPT !.started = @ \/ e.type # "message_start", !.usage = usage]
           r == AnthropicFrames(f, e)
           Good(s) == Frame(s, Closing(e), usage)
           Kept(x) == DOMAIN x = FrameFields /\ x.usage = usage
<1>1. Kept(next) /\ \A y : Kept([next EXCEPT !.sent = y])
  BY DEF FrameFields
<1>2. Good(head)
  <2>1. start.type = "message_start"
    BY SMT DEF Event
  <2> HIDE DEF start, usage
  <2>2. Good(<<start>>) /\ Good(<< >>)
    BY <2>1, FrameFew DEF ToldTypes
  <2> QED BY <2>2 DEF With
<1>3. UsageAfter(f.usage, e) = usage
  BY DEF UsageAfter
<1>4. DOMAIN e = EventFields /\ e.type \in BlockTypes
  BY DEF IsEvent
<1>5. ASSUME NEW x, x.type \in ToldTypes => Closing(e) /\ x.usage = usage
      PROVE  Good(head \o <<x>>) /\ \A c : Good(head \o With(c, <<x>>))
  <2> HIDE DEF head, usage
  <2>1. Good(<<x>>) /\ Good(<< >>)
    BY <1>5, FrameFew
  <2>2. Good(head \o <<x>>) /\ Good(head \o << >>)
    BY <1>2, <2>1, FrameJoin
  <2>3. \A c : With(c, <<x>>) = <<x>> \/ With(c, <<x>>) = << >>
    BY DEF With
  <2> QED BY <2>2, <2>3
<1>6. CASE e.type \in {"message_start", "usage"}
  <2>1. r.state = next /\ r.out = head
    BY <1>6 DEF AnthropicFrames
  <2> HIDE DEF next, head, usage, r
  <2> QED BY <1>1, <1>2, <1>3, <2>1 DEF r
<1>7. CASE e.type = "message_delta"
  <2> DEFINE x == [e EXCEPT !.usage = usage, !.finish = anthropicStopReason(@)]
  <2>1. r.state = next /\ r.out = head \o <<x>>
    BY <1>7 DEF AnthropicFrames
  <2>2. x.usage = usage /\ Closing(e)
    BY <1>4, <1>7 DEF EventFields, Closing
  <2> HIDE DEF x, next, head, usage
  <2>3. Good(head \o <<x>>)
    BY <1>5, <2>2
  <2> QED BY <1>1, <1>3, <2>1, <2>3
<1>8. CASE e.type \notin {"message_start", "usage", "message_delta"}
  <2>1. e.type \notin ToldTypes
    BY <1>4, <1>8 DEF ToldTypes, BlockTypes
  <2> DEFINE x == [e EXCEPT !.data = TrimPrefix(e.data, sent)]
  <2>2. x.type = e.type
    BY <1>4 DEF EventFields
  <2> DEFINE One == r.state = next /\ r.out = head \o <<e>>
             Two == r.state = next /\ r.out = head
             Three == (\E y : r.state = [next EXCEPT !.sent = y]) /\ r.out = head \o <<e>>
             Four == (\E y : r.state = [next EXCEPT !.sent = y]) /\ \E c : r.out = head \o With(c, <<x>>)
  <2>3. One \/ Two \/ Three \/ Four
    <3> HIDE DEF x, sent, head, usage, next, One, Two, Three, Four
    <3>1. CASE e.type = "block_start"
      BY <3>1 DEF AnthropicFrames, next, head, usage, One, Three
    <3>2. CASE e.type = "block_delta" /\ e.kind = "text"
      BY <3>2 DEF AnthropicFrames, next, head, usage, One
    <3>3. CASE e.type = "block_delta" /\ e.kind = "json"
      BY <3>3 DEF AnthropicFrames, next, head, usage, Two
    <3>4. CASE e.type = "block_delta" /\ e.kind = "tool"
      BY <3>4 DEF AnthropicFrames, next, head, usage, sent, x, Two, Four
    <3>5. CASE e.type = "block_stop"
      BY <3>5 DEF AnthropicFrames, next, head, usage, Three
    <3>6. CASE e.type \in {"message_stop", "error"}
      BY <3>6 DEF AnthropicFrames, next, head, usage, One
    <3>7. CASE e.type = "block_delta" /\ e.kind \notin {"text", "json", "tool"}
      BY <3>7 DEF AnthropicFrames, next, head, usage, One
    <3>8. e.type \in {"block_start", "block_delta", "block_stop", "message_stop", "error"}
      BY <1>4, <1>8 DEF BlockTypes
    <3> QED BY <3>1, <3>2, <3>3, <3>4, <3>5, <3>6, <3>7, <3>8
  <2> HIDE DEF x, sent, head, usage, next, r
  <2>4. /\ Good(head \o <<e>>) /\ \A c : Good(head \o With(c, <<x>>))
    BY <1>5, <2>1, <2>2
  <2>5. Kept(r.state)
    BY <1>1, <2>3
  <2>6. Good(r.out)
    BY <1>2, <2>3, <2>4
  <2> QED BY <1>3, <2>5, <2>6 DEF r
<1> QED BY <1>6, <1>7, <1>8

PartFields == {"parts", "open", "calls", "usage"}

(* A list of two or three frames.                                          *)
LEMMA FrameMore ==
  ASSUME NEW closing, NEW u, NEW x, NEW y, NEW z,
         x.type \in ToldTypes => closing /\ x.usage = u,
         y.type \in ToldTypes => closing /\ y.usage = u,
         z.type \in ToldTypes => closing /\ z.usage = u
  PROVE  Frame(<<x, y>>, closing, u) /\ Frame(<<x, y, z>>, closing, u)
<1>1. 1 .. 2 = {1, 2} /\ 1 .. 3 = {1, 2, 3}
  BY SMT
<1>3. Listed(<<x, y>>) /\ Len(<<x, y>>) = 2 /\ <<x, y>>[1] = x /\ <<x, y>>[2] = y
  BY FewListed
<1>4. Listed(<<x, y, z>>) /\ Len(<<x, y, z>>) = 3 /\ <<x, y, z>>[1] = x /\ <<x, y, z>>[2] = y /\ <<x, y, z>>[3] = z
  BY FewListed
<1> QED BY <1>1, <1>3, <1>4 DEF Frame

(* finalizeTextPart tells of no usage and leaves it alone.                 *)
LEMMA FinalizeOK ==
  ASSUME NEW p, DOMAIN p = PartFields, NEW closing, NEW u
  PROVE  LET r == FinalizeTextPart(p)
         IN  DOMAIN r.state = PartFields /\ r.state.usage = p.usage /\ Frame(r.out, closing, u)
<1> DEFINE x == Block("text_done", Len(p.parts), "", Last(p.parts))
           y == Block("part_done", Len(p.parts), "text", Last(p.parts))
           r == FinalizeTextPart(p)
<1>1. r.state = [p EXCEPT !.open = FALSE] /\ r.out = With(p.open, <<x, y>>)
  BY DEF FinalizeTextPart
<1>2. DOMAIN r.state = PartFields /\ r.state.usage = p.usage
  BY <1>1 DEF PartFields
<1>3. x.type \notin ToldTypes /\ y.type \notin ToldTypes
  BY SMT DEF ToldTypes, Block, Event
<1> HIDE DEF x, y, r
<1>4. Frame(<<x, y>>, closing, u) /\ Frame(<< >>, closing, u)
  BY <1>3, FrameMore, FrameFew
<1>5. r.out = <<x, y>> \/ r.out = << >>
  BY <1>1 DEF With
<1> QED BY <1>2, <1>4, <1>5 DEF r

(* A delta's frames tell of no usage and leave it alone.                   *)
LEMMA ResponsesDeltaOK ==
  ASSUME NEW p, DOMAIN p = PartFields, NEW e, NEW closing, NEW u
  PROVE  LET r == ResponsesDelta(p, e)
         IN  DOMAIN r.state = PartFields /\ r.state.usage = p.usage /\ Frame(r.out, closing, u)
<1> DEFINE r == ResponsesDelta(p, e)
           done == FinalizeTextPart(p)
           q == done.state
           n == Len(p.parts)
<1>1. DOMAIN q = PartFields /\ q.usage = p.usage /\ Frame(done.out, closing, u)
  BY FinalizeOK
<1>2. CASE e.kind = "json"
  <2> DEFINE x == Block("part_added", n + 1, "json", e.data)
             y == Block("part_done", n + 1, "json", e.data)
  <2>1. r.state = [q EXCEPT !.parts = Append(@, e.data)] /\ r.out = done.out \o <<x, y>>
    BY <1>2 DEF ResponsesDelta
  <2>2. x.type \notin ToldTypes /\ y.type \notin ToldTypes
    BY SMT DEF ToldTypes, Block, Event
  <2> HIDE DEF x, y, r, done
  <2>3. DOMAIN r.state = PartFields /\ r.state.usage = p.usage
    BY <1>1, <2>1 DEF PartFields
  <2>4. Frame(<<x, y>>, closing, u)
    BY <2>2, FrameMore
  <2>5. Frame(done.out \o <<x, y>>, closing, u)
    BY <1>1, <2>4, FrameJoin
  <2> QED BY <2>1, <2>3, <2>5 DEF r
<1>3. CASE e.kind # "json" /\ p.open
  <2> DEFINE x == Block("text_delta", n, "text", e.data)
  <2>1. r.state = [p EXCEPT !.parts[n] = @ \o e.data] /\ r.out = <<x>>
    BY <1>3 DEF ResponsesDelta
  <2>2. x.type \notin ToldTypes
    BY SMT DEF ToldTypes, Block, Event
  <2> HIDE DEF x, r
  <2>3. DOMAIN r.state = PartFields /\ r.state.usage = p.usage
    BY <2>1 DEF PartFields
  <2>4. Frame(<<x>>, closing, u)
    BY <2>2, FrameFew
  <2> QED BY <2>1, <2>3, <2>4 DEF r
<1>4. CASE e.kind # "json" /\ ~p.open
  <2> DEFINE x == Block("part_added", n + 1, "text", << >>)
             y == Block("text_delta", n + 1, "text", e.data)
  <2>1. r.state = [p EXCEPT !.open = TRUE, !.parts = Append(@, e.data)] /\ r.out = <<x, y>>
    BY <1>4 DEF ResponsesDelta
  <2>2. x.type \notin ToldTypes /\ y.type \notin ToldTypes
    BY SMT DEF ToldTypes, Block, Event
  <2> HIDE DEF x, y, r
  <2>3. DOMAIN r.state = PartFields /\ r.state.usage = p.usage
    BY <2>1 DEF PartFields
  <2>4. Frame(<<x, y>>, closing, u)
    BY <2>2, FrameMore
  <2> QED BY <2>1, <2>3, <2>4 DEF r
<1> QED BY <1>2, <1>3, <1>4

(* openAIResponsesStreamFrames, one event: at the end the usage is told    *)
(* that was reported last.                                                 *)
LEMMA ResponsesOK ==
  ASSUME NEW p, DOMAIN p = PartFields, NEW e, IsEvent(e, RuntimeTypes), Closing(e) => e.usage = p.usage
  PROVE  LET r == ResponsesFrames(p, e)
         IN  /\ DOMAIN r.state = PartFields /\ r.state.usage = UsageAfter(p.usage, e)
             /\ Frame(r.out, Closing(e), UsageAfter(p.usage, e))
<1> DEFINE r == ResponsesFrames(p, e)
           done == FinalizeTextPart(p)
           q == done.state
           closing == Closing(e)
           u == UsageAfter(p.usage, e)
<1>1. DOMAIN q = PartFields /\ q.usage = p.usage /\ Frame(done.out, closing, u)
  BY FinalizeOK
<1>2. e.type # "usage" => u = p.usage
  BY DEF UsageAfter, IsEvent, Closing
<1>3. CASE e.type = "start"
  <2> DEFINE x == Block("item_added", 0, "message", << >>)
  <2>1. r.state = p /\ r.out = <<x>>
    BY <1>3 DEF ResponsesFrames
  <2>2. x.type \notin ToldTypes
    BY SMT DEF ToldTypes, Block, Event
  <2> HIDE DEF x, r, u, closing
  <2>3. Frame(<<x>>, closing, u)
    BY <2>2, FrameFew
  <2> QED BY <1>2, <1>3, <2>1, <2>3 DEF r, u, closing
<1>4. CASE e.type = "delta"
  <2>1. r = ResponsesDelta(p, e)
    BY <1>4 DEF ResponsesFrames
  <2>2. u = p.usage
    BY <1>2, <1>4
  <2> HIDE DEF r, u, closing
  <2> QED BY <2>1, <2>2, ResponsesDeltaOK DEF r, u, closing
<1>5. CASE e.type = "tool"
  <2> DEFINE x == Block("item_added", e.index + 1, "call", << >>)
             y == Block("args_done", e.index + 1, "call", e.data)
             z == Block("item_done", e.index + 1, "call", e.data)
  <2>1. r.state = [q EXCEPT !.calls = Append(@, e.data)] /\ r.out = done.out \o <<x, y, z>>
    BY <1>5 DEF ResponsesFrames
  <2>2. x.type \notin ToldTypes /\ y.type \notin ToldTypes /\ z.type \notin ToldTypes
    BY SMT DEF ToldTypes, Block, Event
  <2> HIDE DEF x, y, z, r, done, u, closing
  <2>3. DOMAIN r.state = PartFields /\ r.state.usage = p.usage
    BY <1>1, <2>1 DEF PartFields
  <2>4. Frame(<<x, y, z>>, closing, u)
    BY <2>2, FrameMore
  <2>5. Frame(done.out \o <<x, y, z>>, closing, u)
    BY <1>1, <2>4, FrameJoin
  <2> QED BY <1>2, <1>5, <2>1, <2>3, <2>5 DEF r, u, closing
<1>6. CASE e.type = "usage"
  <2>1. r.state = [p EXCEPT !.usage = e.usage] /\ r.out = <<e>>
    BY <1>6 DEF ResponsesFrames
  <2>2. DOMAIN r.state = PartFields /\ r.state.usage = u
    BY <1>6, <2>1 DEF PartFields, IsEvent, UsageAfter
  <2>3. e.type \notin ToldTypes
    BY <1>6 DEF ToldTypes
  <2> HIDE DEF r, u, closing
  <2>4. Frame(<<e>>, closing, u)
    BY <2>3, FrameFew
  <2> QED BY <2>1, <2>2, <2>4 DEF r, u, closing
<1>7. CASE e.type = "error"
  <2>1. r.state = p /\ r.out = <<e>>
    BY <1>7 DEF ResponsesFrames
  <2>2. e.type \notin ToldTypes
    BY <1>7 DEF ToldTypes
  <2> HIDE DEF r, u, closing
  <2>3. Frame(<<e>>, closing, u)
    BY <2>2, FrameFew
  <2> QED BY <1>2, <1>7, <2>1, <2>3 DEF r, u, closing
<1>8. CASE e.type = "end"
  <2> DEFINE x == Block("item_done", 0, "message", q.parts)
             y == [Block("completed", 0, "", [parts |-> q.parts, calls |-> q.calls]) EXCEPT !.usage = q.usage]
  <2>1. r.state = q /\ r.out = done.out \o <<x, y>>
    BY <1>8 DEF ResponsesFrames
  <2>2. x.type \notin ToldTypes
    BY SMT DEF ToldTypes, Block, Event
  <2>3. y.usage = q.usage
    BY SMT DEF Block, Event
  <2>4. closing
    BY <1>8 DEF Closing
  <2> HIDE DEF x, y, r, done, u, closing
  <2>7. Frame(<<x, y>>, closing, u)
    BY <1>1, <1>2, <1>8, <2>2, <2>3, <2>4, FrameMore
  <2>8. Frame(done.out \o <<x, y>>, closing, u)
    BY <1>1, <2>7, FrameJoin
  <2> QED BY <1>1, <1>2, <1>8, <2>1, <2>8 DEF r, u, closing
<1>9. e.type \in RuntimeTypes
  BY DEF IsEvent
<1> QED BY <1>3, <1>4, <1>5, <1>6, <1>7, <1>8, <1>9 DEF RuntimeTypes

-----------------------------------------------------------------------------
(* The chain *)

QueueOK(q) ==
  /\ DOMAIN q = Stages
  /\ EventsIn(q["decoder"], RuntimeTypes) /\ EventsIn(q["forwarder"], RuntimeTypes)
  /\ EventsIn(q["wrapper"], RuntimeTypes) /\ EventsIn(q["blocks"], BlockTypes)

(* What the last goroutine has still to read, and how much of it           *)
(* wrapStream has seen.                                                    *)
Flow(q) == ((q["blocks"] \o q["wrapper"]) \o q["forwarder"]) \o q["decoder"]

Seen(q) == q["blocks"] \o q["wrapper"]

(* Nothing that counts is on its way to the last goroutine.                *)
Over(q, l) == Silent(Flow(q)) /\ "decoder" \notin l

(* Reading on from the usage the last goroutine knows, one comes to what   *)
(* wrapStream knows and to what the decoder knows; and frames that tell    *)
(* the client of the usage are there only when all of it has been read.    *)
Watched(q, l, st, rc) ==
  /\ Sound(st.frames.usage, Flow(q))
  /\ Reached(st.frames.usage, Seen(q), Len(Seen(q)), st.wrapper.usage)
  /\ "decoder" \in l => Unclosed(Flow(q)) /\ Reached(st.frames.usage, Flow(q), Len(Flow(q)), st.decoder.usage)
  /\ Frame(q["frames"], Over(q, l), st.frames.usage)
  /\ Frame(rc, Over(q, l), st.frames.usage)

(* What is under way is a list, in the order in which it will be read.     *)
LEMMA FlowListed ==
  ASSUME NEW q, QueueOK(q)
  PROVE  /\ Listed(q["decoder"]) /\ Listed(q["forwarder"]) /\ Listed(q["wrapper"]) /\ Listed(q["blocks"])
         /\ Listed(Seen(q)) /\ Listed(Seen(q) \o q["forwarder"]) /\ Listed(Flow(q))
         /\ Flow(q) = (Seen(q) \o q["forwarder"]) \o q["decoder"]
<1>1. Listed(q["decoder"]) /\ Listed(q["forwarder"]) /\ Listed(q["wrapper"]) /\ Listed(q["blocks"])
  BY DEF QueueOK, EventsIn
<1>2. Listed(Seen(q))
  BY <1>1, JoinOK DEF Seen
<1>3. Listed(Seen(q) \o q["forwarder"])
  BY <1>1, <1>2, JoinOK
<1>4. Flow(q) = (Seen(q) \o q["forwarder"]) \o q["decoder"]
  BY DEF Flow, Seen
<1>5. Listed(Flow(q))
  <2>1. Listed((Seen(q) \o q["forwarder"]) \o q["decoder"])
    BY <1>1, <1>3, JoinOK
  <2> QED BY <1>4, <2>1
<1> QED BY <1>1, <1>2, <1>3, <1>4, <1>5

(* Reading one event.                                                      *)
LEMMA ReachedOne ==
  ASSUME NEW u, NEW e
  PROVE  Reached(u, <<e>>, 1, UsageAfter(u, e))
<1>1. <<e>>[1] = e
  BY FewListed
<1>2. 1 .. 1 = {1} /\ 1 + 1 .. 1 = {}
  BY SMT
<1> QED BY <1>1, <1>2 DEF Reached, UsageAfter

(* The decoder adds to its queue.                                          *)
LEMMA WatchDecode ==
  ASSUME NEW q, NEW l, NEW st, NEW rc, QueueOK(q), Watched(q, l, st, rc), "decoder" \in l,
         NEW out, EventsIn(out, RuntimeTypes), Sound(st.decoder.usage, out),
         NEW r, r = [q EXCEPT !["decoder"] = @ \o out],
         NEW m, NEW ns, ns.frames = st.frames, ns.wrapper = st.wrapper,
         "decoder" \in m => Unclosed(out) /\ Reached(st.decoder.usage, out, Len(out), ns.decoder.usage)
  PROVE  QueueOK(r) /\ Watched(r, m, ns, rc)
<1> DEFINE u == st.frames.usage
           d == st.decoder.usage
<1>1. /\ DOMAIN r = Stages /\ r["decoder"] = q["decoder"] \o out
      /\ r["forwarder"] = q["forwarder"] /\ r["wrapper"] = q["wrapper"] /\ r["blocks"] = q["blocks"]
      /\ r["frames"] = q["frames"]
  BY DEF QueueOK, Stages
<1>2. EventsIn(q["decoder"] \o out, RuntimeTypes)
  BY EventsJoin DEF QueueOK
<1>3. QueueOK(r)
  BY <1>1, <1>2 DEF QueueOK
<1>4. Listed(out) /\ Listed(q["decoder"]) /\ Listed(Seen(q) \o q["forwarder"]) /\ Listed(Flow(q))
  BY FlowListed DEF EventsIn
<1>5. Flow(r) = Flow(q) \o out /\ Seen(r) = Seen(q)
  <2>1. Seen(r) = Seen(q)
    BY <1>1 DEF Seen
  <2>2. Flow(r) = (Seen(q) \o q["forwarder"]) \o (q["decoder"] \o out)
    BY <1>1, <1>3, <2>1, FlowListed
  <2>3. Flow(q) = (Seen(q) \o q["forwarder"]) \o q["decoder"]
    BY FlowListed
  <2>4. Regroup(Seen(q) \o q["forwarder"], q["decoder"], out)
    BY <1>4, JoinJoin
  <2> QED BY <2>1, <2>2, <2>3, <2>4 DEF Regroup
<1>6. Unclosed(Flow(q)) /\ Sound(u, Flow(q)) /\ Reached(u, Flow(q), Len(Flow(q)), d) /\ Sound(d, out)
  BY DEF Watched
<1>7. Sound(u, Flow(r))
  <2>1. Sound(u, Flow(q) \o out)
    BY <1>4, <1>6, SoundJoin
  <2> QED BY <1>5, <2>1
<1>8. ASSUME "decoder" \in m PROVE Unclosed(Flow(r)) /\ Reached(u, Flow(r), Len(Flow(r)), ns.decoder.usage)
  <2>1. Unclosed(Flow(q) \o out)
    BY <1>4, <1>6, <1>8, UnclosedJoin
  <2>2. Len(out) \in 0 .. Len(out)
    BY SMT, <1>4, ListOK
  <2>3. Reached(u, Flow(q) \o out, Len(Flow(q)) + Len(out), ns.decoder.usage)
    BY <1>4, <1>6, <1>8, <2>2, ReachedJoin
  <2>4. Len(Flow(q) \o out) = Len(Flow(q)) + Len(out)
    BY <1>4, JoinOK
  <2> QED BY <1>5, <2>1, <2>3, <2>4
<1>9. Frame(q["frames"], FALSE, u) /\ Frame(rc, FALSE, u)
  BY DEF Watched, Over
<1>10. Frame(r["frames"], Over(r, m), u) /\ Frame(rc, Over(r, m), u)
  <2> DEFINE over == Over(r, m)
  <2> HIDE DEF over, u
  <2>1. Frame(q["frames"], over, u) /\ Frame(rc, over, u)
    BY <1>9 DEF Frame
  <2> QED BY <1>1, <2>1 DEF over
<1> QED BY <1>1, <1>3, <1>5, <1>7, <1>8, <1>10 DEF Watched

(* The forwarder takes an event of the decoder's.                          *)
LEMMA WatchForward ==
  ASSUME NEW q, NEW l, NEW st, NEW rc, QueueOK(q), q["decoder"] # << >>,
         NEW r, r = [q EXCEPT !["decoder"] = Tail(@), !["forwarder"] = @ \o <<Head(q["decoder"])>>]
  PROVE  QueueOK(r) /\ (Watched(q, l, st, rc) => Watched(r, l, st, rc))
<1> DEFINE h == Head(q["decoder"])
<1>1. /\ DOMAIN r = Stages /\ r["decoder"] = Tail(q["decoder"]) /\ r["forwarder"] = q["forwarder"] \o <<h>>
      /\ r["wrapper"] = q["wrapper"] /\ r["blocks"] = q["blocks"] /\ r["frames"] = q["frames"]
  BY DEF QueueOK, Stages
<1>2. EventsIn(Tail(q["decoder"]), RuntimeTypes) /\ IsEvent(h, RuntimeTypes)
  BY EventsTail DEF QueueOK
<1> HIDE DEF h
<1>3. EventsIn(<<h>>, RuntimeTypes)
  BY <1>2, EventsFew
<1>4. EventsIn(q["forwarder"] \o <<h>>, RuntimeTypes)
  BY <1>3, EventsJoin DEF QueueOK
<1>5. QueueOK(r)
  BY <1>1, <1>2, <1>4 DEF QueueOK
<1>6. /\ Listed(<<h>>) /\ Listed(q["decoder"]) /\ Listed(q["forwarder"]) /\ Listed(Seen(q))
      /\ Listed(Seen(q) \o q["forwarder"])
  BY <1>3, FlowListed DEF EventsIn
<1>7. Seen(r) = Seen(q)
  BY <1>1 DEF Seen
<1>8. Flow(r) = Flow(q)
  <2>1. Flow(r) = (Seen(q) \o (q["forwarder"] \o <<h>>)) \o Tail(q["decoder"])
    BY <1>1, <1>5, <1>7, FlowListed
  <2>2. Regroup(Seen(q), q["forwarder"], <<h>>)
    BY <1>6, JoinJoin
  <2>3. ((Seen(q) \o q["forwarder"]) \o <<Head(q["decoder"])>>) \o Tail(q["decoder"]) = (Seen(q) \o q["forwarder"]) \o q["decoder"]
    BY <1>6, JoinMove
  <2>4. Flow(q) = (Seen(q) \o q["forwarder"]) \o q["decoder"]
    BY FlowListed
  <2> QED BY <2>1, <2>2, <2>3, <2>4 DEF Regroup, h
<1> QED BY <1>1, <1>5, <1>7, <1>8 DEF Watched, Over

(* wrapStream takes an event of the forwarder's.                           *)
LEMMA WatchWrap ==
  ASSUME NEW q, NEW l, NEW st, NEW rc, QueueOK(q), q["forwarder"] # << >>,
         NEW r, r = [q EXCEPT !["forwarder"] = Tail(@), !["wrapper"] = @ \o <<Head(q["forwarder"])>>],
         NEW ns, ns.frames = st.frames, ns.decoder = st.decoder,
         ns.wrapper.usage = UsageAfter(st.wrapper.usage, Head(q["forwarder"]))
  PROVE  QueueOK(r) /\ (Watched(q, l, st, rc) => Watched(r, l, ns, rc))
<1> DEFINE h == Head(q["forwarder"])
           u == st.frames.usage
           w == st.wrapper.usage
<1>1. /\ DOMAIN r = Stages /\ r["forwarder"] = Tail(q["forwarder"]) /\ r["wrapper"] = q["wrapper"] \o <<h>>
      /\ r["decoder"] = q["decoder"] /\ r["blocks"] = q["blocks"] /\ r["frames"] = q["frames"]
  BY DEF QueueOK, Stages
<1>2. EventsIn(Tail(q["forwarder"]), RuntimeTypes) /\ IsEvent(h, RuntimeTypes)
  BY EventsTail DEF QueueOK
<1>0. ns.wrapper.usage = UsageAfter(w, h)
  OBVIOUS
<1> HIDE DEF h
<1>3. EventsIn(<<h>>, RuntimeTypes)
  BY <1>2, EventsFew
<1>4. EventsIn(q["wrapper"] \o <<h>>, RuntimeTypes)
  BY <1>3, EventsJoin DEF QueueOK
<1>5. QueueOK(r)
  BY <1>1, <1>2, <1>4 DEF QueueOK
<1>6. /\ Listed(<<h>>) /\ Listed(q["wrapper"]) /\ Listed(q["forwarder"]) /\ Listed(q["blocks"]) /\ Listed(Seen(q))
  BY <1>3, FlowListed DEF EventsIn
<1>7. Seen(r) = Seen(q) \o <<h>>
  <2>1. Regroup(q["blocks"], q["wrapper"], <<h>>)
    BY <1>6, JoinJoin
  <2> QED BY <1>1, <2>1 DEF Seen, Regroup
<1>8. Flow(r) = Flow(q)
  <2>1. Flow(r) = ((Seen(q) \o <<h>>) \o Tail(q["forwarder"])) \o q["decoder"]
    BY <1>1, <1>5, <1>7, FlowListed
  <2>2. (Seen(q) \o <<Head(q["forwarder"])>>) \o Tail(q["forwarder"]) = Seen(q) \o q["forwarder"]
    BY <1>6, JoinMove
  <2>3. Flow(q) = (Seen(q) \o q["forwarder"]) \o q["decoder"]
    BY FlowListed
  <2> QED BY <2>1, <2>2, <2>3 DEF h
<1>9. ASSUME Watched(q, l, st, rc) PROVE Reached(u, Seen(r), Len(Seen(r)), ns.wrapper.usage)
  <2>1. Reached(u, Seen(q), Len(Seen(q)), w)
    BY <1>9 DEF Watched
  <2>2. Reached(w, <<h>>, Len(<<h>>), UsageAfter(w, h))
    BY ReachedOne, FewListed
  <2>3. Len(<<h>>) \in 0 .. Len(<<h>>)
    BY SMT, <1>6, ListOK
  <2> HIDE DEF u, w
  <2>4. Reached(u, Seen(q) \o <<h>>, Len(Seen(q)) + Len(<<h>>), UsageAfter(w, h))
    BY <1>6, <2>1, <2>2, <2>3, ReachedJoin
  <2>5. Len(Seen(q) \o <<h>>) = Len(Seen(q)) + Len(<<h>>)
    BY <1>6, JoinOK
  <2> QED BY <1>0, <1>7, <2>4, <2>5
<1> QED BY <1>1, <1>5, <1>8, <1>9 DEF Watched, Over

(* A sound list is sound up to any place.                                  *)
LEMMA SoundHead ==
  ASSUME NEW u, NEW s, NEW t, Listed(s), Listed(t), Sound(u, s \o t)
  PROVE  Sound(u, s)
<1>1. /\ Len(s) \in Nat /\ Len(t) \in Nat /\ Len(s \o t) = Len(s) + Len(t)
      /\ \A k \in 1 .. Len(s) : (s \o t)[k] = s[k]
  BY SMT, ListOK, JoinOK
<1>2. ASSUME NEW k \in 1 .. Len(s), Closing(s[k])
      PROVE  /\ Reached(u, s, k - 1, s[k].usage)
             /\ \A j \in k + 1 .. Len(s) : s[j].usage = 0 /\ ~Closing(s[j])
  <2>1. /\ k \in 1 .. Len(s \o t) /\ k - 1 \in 0 .. Len(s)
        /\ \A j \in k + 1 .. Len(s) : j \in 1 .. Len(s) /\ j \in k + 1 .. Len(s \o t)
    BY SMT, <1>1
  <2>2. /\ Reached(u, s \o t, k - 1, s[k].usage)
        /\ \A j \in k + 1 .. Len(s \o t) : (s \o t)[j].usage = 0 /\ ~Closing((s \o t)[j])
    BY <1>1, <1>2, <2>1 DEF Sound
  <2>3. Reached(u, s, k - 1, s[k].usage)
    BY <2>1, <2>2, ReachedHead
  <2> QED BY <1>1, <2>1, <2>2, <2>3
<1> QED BY <1>2 DEF Sound

(* Nothing changes: the usage is the one before.                           *)
LEMMA CarriesSilent ==
  ASSUME NEW s, NEW e, Carries(s, e, BlockTypes), e.usage = 0, ~Closing(e)
  PROVE  Silent(s)
<1>1. UsageAfter(0, e) = 0
  BY DEF UsageAfter
<1>2. Tells(0, s, 0) /\ Unclosed(s)
  BY <1>1 DEF Carries
<1>3. Reached(0, s, Len(s), 0)
  BY <1>2 DEF Tells
<1>4. \A k \in 1 .. Len(s) : s[k].usage = 0
  BY <1>3 DEF Reached
<1> QED BY <1>2, <1>4 DEF Silent, Unclosed

(* The event at the head of a list of events is replaced by what carries   *)
(* it.                                                                     *)
LEMMA ReplaceOK ==
  ASSUME NEW u, NEW s, Listed(s), s # << >>, NEW out, Carries(out, s[1], BlockTypes)
  PROVE  /\ Sound(u, s) => Sound(u, out \o Tail(s))
         /\ \A v : Sound(u, s) /\ Reached(u, s, Len(s), v) => Reached(u, out \o Tail(s), Len(out \o Tail(s)), v)
         /\ Unclosed(s) => Unclosed(out \o Tail(s))
         /\ Silent(s) => Silent(out \o Tail(s))
<1> DEFINE e == s[1]
           t == Tail(s)
           w == UsageAfter(u, e)
<1>0. Listed(t) /\ Listed(out) /\ Len(t) = Len(s) - 1
  BY TailOK DEF Carries, EventsIn
<1>1. Listed(t) /\ Listed(out) /\ Len(t) = Len(s) - 1 /\ Len(s) \in 1 .. Len(s) /\ Len(t) \in 0 .. Len(t)
  BY SMT, <1>0, ListOK
<1>2. Len(out \o t) = Len(out) + Len(t)
  BY <1>1, JoinOK
<1>3. ASSUME Sound(u, s)
      PROVE  /\ Sound(w, t) /\ Sound(u, out) /\ Reached(u, out, Len(out), w)
             /\ Closing(e) => Silent(t)
             /\ ~Closing(e) => Unclosed(out)
  <2>1. Sound(w, t) /\ (Closing(e) => e.usage = u /\ Silent(t))
    BY <1>3, SoundTail
  <2>2. Tells(u, out, w) /\ (~Closing(e) => Unclosed(out))
    BY <2>1 DEF Carries
  <2> QED BY <2>1, <2>2 DEF Tells
<1>4. ASSUME Sound(u, s) PROVE Sound(u, out \o t)
  BY <1>1, <1>3, <1>4, SoundJoin
<1>5. ASSUME NEW v, Sound(u, s), Reached(u, s, Len(s), v) PROVE Reached(u, out \o t, Len(out \o t), v)
  <2>1. Reached(w, t, Len(s) - 1, v)
    BY <1>1, <1>5, ReachedTail
  <2>2. Reached(w, t, Len(t), v)
    BY <1>1, <2>1
  <2>3. Reached(u, out, Len(out), w)
    BY <1>3, <1>5
  <2> HIDE DEF t, w, e
  <2>4. Reached(u, out \o t, Len(out) + Len(t), v)
    BY <1>1, <2>2, <2>3, ReachedJoin
  <2> QED BY <1>2, <2>4
<1>6. ASSUME Unclosed(s) PROVE Unclosed(out \o t)
  <2>1. Unclosed(t) /\ ~Closing(e)
    BY <1>6, QuietTail
  <2>2. Unclosed(out)
    BY <2>1 DEF Carries
  <2> QED BY <1>1, <2>1, <2>2, UnclosedJoin
<1>7. ASSUME Silent(s) PROVE Silent(out \o t)
  <2>1. Silent(t) /\ e.usage = 0 /\ ~Closing(e)
    BY <1>7, QuietTail
  <2>2. Silent(out)
    BY <2>1, CarriesSilent
  <2> QED BY <1>1, <2>1, <2>2, SilentJoin
<1> QED BY <1>4, <1>5, <1>6, <1>7

(* The goroutine that makes blocks takes an event of wrapStream's.         *)
MakesBlocks(q, r, out) ==
  /\ QueueOK(q) /\ q["wrapper"] # << >> /\ q["blocks"] = << >>
  /\ Carries(out, Head(q["wrapper"]), BlockTypes)
  /\ r = [q EXCEPT !["wrapper"] = Tail(@), !["blocks"] = @ \o out]

(* The blocks that carry an event take its place: the chain is as it was.  *)
LEMMA WatchBlocks ==
  ASSUME NEW q, NEW l, NEW st, NEW rc, NEW r, NEW out, MakesBlocks(q, r, out),
         NEW ns, ns.frames = st.frames, ns.decoder = st.decoder, ns.wrapper = st.wrapper
  PROVE  QueueOK(r) /\ (Watched(q, l, st, rc) => Watched(r, l, ns, rc))
<1> USE DEF MakesBlocks
<1> DEFINE w == q["wrapper"]
           f == q["forwarder"]
           d == q["decoder"]
           u == st.frames.usage
<1>1. Listed(w) /\ Listed(f) /\ Listed(d) /\ Listed(out) /\ EventsIn(out, BlockTypes)
  BY FlowListed DEF Carries, EventsIn
<1>2. << >> \o w = w /\ << >> \o out = out
  BY <1>1, JoinEmpty
<1>3. /\ DOMAIN r = Stages /\ r["wrapper"] = Tail(w) /\ r["blocks"] = out
      /\ r["decoder"] = d /\ r["forwarder"] = f /\ r["frames"] = q["frames"]
  BY <1>2 DEF QueueOK, Stages
<1>4. EventsIn(Tail(w), RuntimeTypes)
  BY EventsTail DEF QueueOK
<1>5. QueueOK(r)
  BY <1>1, <1>3, <1>4 DEF QueueOK
<1>6. Seen(q) = w /\ Flow(q) = (w \o f) \o d
  BY <1>2 DEF Seen, Flow
<1>7. Seen(r) = out \o Tail(w) /\ Flow(r) = ((out \o Tail(w)) \o f) \o d
  BY <1>3 DEF Seen, Flow
<1> HIDE DEF w, f, d
<1>8. w # << >> /\ Listed(Tail(w)) /\ Head(w) = w[1]
  BY <1>1, TailOK DEF w
<1>9. /\ Tail(w \o f) = Tail(w) \o f /\ (w \o f)[1] = Head(w) /\ w \o f # << >> /\ Listed(w \o f)
      /\ Listed(Tail(w) \o f)
  BY <1>1, <1>8, JoinTail, JoinOK
<1>10. /\ Tail((w \o f) \o d) = (Tail(w) \o f) \o d /\ ((w \o f) \o d)[1] = Head(w) /\ (w \o f) \o d # << >>
       /\ Listed((w \o f) \o d)
  <2>1. Head(w \o f) = (w \o f)[1]
    BY <1>9, TailOK
  <2> DEFINE x == w \o f
  <2>2. Listed(x) /\ x # << >>
    BY <1>9
  <2> HIDE DEF x
  <2>3. Tail(x \o d) = Tail(x) \o d /\ (x \o d)[1] = Head(x) /\ x \o d # << >> /\ Listed(x \o d)
    BY <1>1, <2>2, JoinTail, JoinOK
  <2> QED BY <1>9, <2>1, <2>3 DEF x
<1>11. ((out \o Tail(w)) \o f) \o d = out \o ((Tail(w) \o f) \o d)
  <2>1. Regroup(out, Tail(w), f) /\ Regroup(out, Tail(w) \o f, d)
    BY <1>1, <1>8, <1>9, JoinJoin
  <2> QED BY <2>1 DEF Regroup
<1>12. Listed(Flow(q)) /\ Flow(q) # << >> /\ Flow(q)[1] = Head(w) /\ Flow(r) = out \o Tail(Flow(q))
  BY <1>6, <1>7, <1>10, <1>11
<1>13. Carries(out, Flow(q)[1], BlockTypes) /\ Carries(out, Seen(q)[1], BlockTypes)
  BY <1>6, <1>8, <1>12 DEF w
<1>14. Listed(Seen(q)) /\ Seen(q) # << >> /\ Seen(r) = out \o Tail(Seen(q))
  BY <1>1, <1>6, <1>7, <1>8
<1>15. ASSUME Watched(q, l, st, rc) PROVE Watched(r, l, ns, rc)
  <2>1. Sound(u, Flow(r))
    BY <1>12, <1>13, <1>15, ReplaceOK DEF Watched
  <2>2. Sound(u, Seen(q))
    <3> DEFINE x == Seen(q)
               y == f \o d
    <3>1. Listed(y)
      BY <1>1, JoinOK
    <3>2. Regroup(w, f, d)
      BY <1>1, JoinJoin
    <3>3. Flow(q) = x \o y
      BY <1>6, <3>2 DEF Regroup
    <3> HIDE DEF x, y
    <3> QED BY <1>14, <1>15, <3>1, <3>3, SoundHead DEF Watched, x
  <2>3. Reached(u, Seen(r), Len(Seen(r)), st.wrapper.usage)
    BY <1>13, <1>14, <1>15, <2>2, ReplaceOK DEF Watched
  <2>4. ASSUME "decoder" \in l PROVE Unclosed(Flow(r)) /\ Reached(u, Flow(r), Len(Flow(r)), st.decoder.usage)
    BY <1>12, <1>13, <1>15, <2>4, ReplaceOK DEF Watched
  <2>5. Over(q, l) => Over(r, l)
    BY <1>12, <1>13, ReplaceOK DEF Over
  <2>6. Frame(q["frames"], Over(r, l), u) /\ Frame(rc, Over(r, l), u)
    <3>1. Frame(q["frames"], Over(q, l), u) /\ Frame(rc, Over(q, l), u)
      BY <1>15 DEF Watched
    <3> HIDE DEF u
    <3> QED BY <2>5, <3>1 DEF Frame
  <2> QED BY <1>3, <2>1, <2>3, <2>4, <2>6 DEF Watched
<1> QED BY <1>5, <1>15

(* The last goroutine reads an event and makes its frames.                 *)
Takes(q, r, e, out) ==
  /\ Listed(Flow(q)) /\ Flow(q) # << >> /\ Flow(q)[1] = e /\ Flow(r) = Tail(Flow(q))
  /\ Listed(Seen(q)) /\ Seen(q) # << >> /\ Seen(q)[1] = e /\ Seen(r) = Tail(Seen(q))
  /\ r["frames"] = q["frames"] \o out

(* The last goroutine then knows the event's usage, and its frames tell of *)
(* the usage only if the message ends with it.                             *)
LEMMA WatchTake ==
  ASSUME NEW q, NEW l, NEW st, NEW rc, NEW r, NEW e, NEW out, Takes(q, r, e, out), Watched(q, l, st, rc),
         NEW ns, ns.decoder = st.decoder, ns.wrapper = st.wrapper,
         ns.frames.usage = UsageAfter(st.frames.usage, e),
         Frame(out, Closing(e), UsageAfter(st.frames.usage, e))
  PROVE  Watched(r, l, ns, rc)
<1> DEFINE u == st.frames.usage
           v == UsageAfter(u, e)
<1>0. ns.frames.usage = v /\ Frame(out, Closing(e), v)
  OBVIOUS
<1>1. /\ Listed(Flow(q)) /\ Flow(q) # << >> /\ Flow(q)[1] = e /\ Flow(r) = Tail(Flow(q))
      /\ Listed(Seen(q)) /\ Seen(q) # << >> /\ Seen(q)[1] = e /\ Seen(r) = Tail(Seen(q))
  BY DEF Takes
<1>2. /\ Sound(u, Flow(q)) /\ Reached(u, Seen(q), Len(Seen(q)), st.wrapper.usage)
      /\ "decoder" \in l => Unclosed(Flow(q)) /\ Reached(u, Flow(q), Len(Flow(q)), st.decoder.usage)
      /\ Frame(q["frames"], Over(q, l), u) /\ Frame(rc, Over(q, l), u)
  BY DEF Watched
<1>3. Sound(v, Flow(r)) /\ (Closing(e) => Silent(Flow(r)))
  BY <1>1, <1>2, SoundTail
<1>4. ASSUME NEW s, Listed(s), s # << >>, s[1] = e, NEW x, Reached(u, s, Len(s), x)
      PROVE  Reached(v, Tail(s), Len(Tail(s)), x)
  <2>1. Len(s) \in 1 .. Len(s) /\ Len(Tail(s)) = Len(s) - 1
    <3>1. Len(s) \in Nat /\ Len(s) >= 1
      BY <1>4, ListOK
    <3>2. Len(s) \in 1 .. Len(s)
      BY SMT, <3>1
    <3> QED BY <1>4, <3>2, TailOK
  <2>2. Reached(UsageAfter(u, s[1]), Tail(s), Len(s) - 1, x)
    BY <1>4, <2>1, ReachedTail
  <2> QED BY <1>4, <2>1, <2>2
<1>5. Reached(v, Seen(r), Len(Seen(r)), st.wrapper.usage)
  BY <1>1, <1>2, <1>4
<1>6. ASSUME "decoder" \in l PROVE Unclosed(Flow(r)) /\ Reached(v, Flow(r), Len(Flow(r)), st.decoder.usage)
  BY <1>1, <1>2, <1>4, <1>6, QuietTail
<1>7. Closing(e) => Over(r, l)
  <2>1. "decoder" \in l => ~Closing(e)
    BY <1>1, <1>2, QuietTail
  <2> QED BY <1>3, <2>1 DEF Over
<1>8. Over(q, l) => Over(r, l) /\ v = u
  <2>1. Silent(Flow(q)) => Silent(Flow(r)) /\ e.usage = 0
    BY <1>1, QuietTail
  <2> QED BY <2>1 DEF Over, UsageAfter
<1> HIDE DEF u, v
<1>9. Frame(q["frames"], Over(r, l), v) /\ Frame(rc, Over(r, l), v) /\ Frame(out, Over(r, l), v)
  BY <1>0, <1>2, <1>7, <1>8 DEF Frame
<1>10. Frame(q["frames"] \o out, Over(r, l), v)
  BY <1>9, FrameJoin
<1> QED BY <1>0, <1>3, <1>5, <1>6, <1>9, <1>10 DEF Watched, Takes

(* Reading what EventStreamFromRuntime made (the Anthropic codec).         *)
LEMMA TakeBlocks ==
  ASSUME NEW q, QueueOK(q), q["blocks"] # << >>, NEW out, NEW r,
         r = [q EXCEPT !["blocks"] = Tail(@), !["frames"] = @ \o out]
  PROVE  QueueOK(r) /\ Takes(q, r, Head(q["blocks"]), out) /\ IsEvent(Head(q["blocks"]), BlockTypes)
<1> DEFINE b == q["blocks"]
           w == q["wrapper"]
           f == q["forwarder"]
           d == q["decoder"]
<1>1. /\ DOMAIN r = Stages /\ r["blocks"] = Tail(b) /\ r["wrapper"] = w /\ r["forwarder"] = f /\ r["decoder"] = d
      /\ r["frames"] = q["frames"] \o out
  BY DEF QueueOK, Stages
<1>2. EventsIn(Tail(b), BlockTypes) /\ IsEvent(Head(b), BlockTypes)
  BY EventsTail DEF QueueOK
<1>3. QueueOK(r)
  BY <1>1, <1>2 DEF QueueOK
<1>4. Listed(b) /\ Listed(w) /\ Listed(f) /\ Listed(d) /\ b # << >>
  BY FlowListed
<1>5. /\ Seen(q) = b \o w /\ Seen(r) = Tail(b) \o w
      /\ Flow(q) = ((b \o w) \o f) \o d /\ Flow(r) = ((Tail(b) \o w) \o f) \o d
  BY <1>1 DEF Seen, Flow
<1> HIDE DEF b, w, f, d
<1>6. ASSUME NEW s, NEW t, Listed(s), s # << >>, Listed(t)
      PROVE  /\ Tail(s \o t) = Tail(s) \o t /\ (s \o t)[1] = s[1] /\ s \o t # << >> /\ Listed(s \o t)
  <2>1. Tail(s \o t) = Tail(s) \o t /\ (s \o t)[1] = Head(s) /\ s \o t # << >>
    BY <1>6, JoinTail
  <2>2. Head(s) = s[1]
    BY <1>6, TailOK
  <2>3. Listed(s \o t)
    BY <1>6, JoinOK
  <2> QED BY <2>1, <2>2, <2>3
<1>7. /\ Tail(b \o w) = Tail(b) \o w /\ (b \o w)[1] = b[1] /\ b \o w # << >> /\ Listed(b \o w)
  BY <1>4, <1>6
<1> DEFINE x == b \o w
<1>8. Tail(x \o f) = Tail(x) \o f /\ (x \o f)[1] = x[1] /\ x \o f # << >> /\ Listed(x \o f)
  BY <1>4, <1>6, <1>7
<1> DEFINE y == x \o f
<1>9. Tail(y \o d) = Tail(y) \o d /\ (y \o d)[1] = y[1] /\ y \o d # << >> /\ Listed(y \o d)
  <2>1. Listed(y) /\ y # << >>
    BY <1>8
  <2> HIDE DEF y
  <2> QED BY <1>4, <1>6, <2>1
<1>10. Head(b) = b[1]
  BY <1>4, TailOK
<1>11. Takes(q, r, Head(b), out)
  BY <1>1, <1>5, <1>7, <1>8, <1>9, <1>10 DEF Takes
<1> QED BY <1>2, <1>3, <1>11 DEF b

(* Reading what wrapStream forwarded (the Responses codec).                *)
LEMMA TakeEvents ==
  ASSUME NEW q, QueueOK(q), q["blocks"] = << >>, q["wrapper"] # << >>, NEW out, NEW r,
         r = [q EXCEPT !["wrapper"] = Tail(@), !["frames"] = @ \o out]
  PROVE  /\ QueueOK(r) /\ r["blocks"] = << >>
         /\ Takes(q, r, Head(q["wrapper"]), out) /\ IsEvent(Head(q["wrapper"]), RuntimeTypes)
<1> DEFINE w == q["wrapper"]
           f == q["forwarder"]
           d == q["decoder"]
<1>1. /\ DOMAIN r = Stages /\ r["blocks"] = << >> /\ r["wrapper"] = Tail(w) /\ r["forwarder"] = f /\ r["decoder"] = d
      /\ r["frames"] = q["frames"] \o out
  BY DEF QueueOK, Stages
<1>2. EventsIn(Tail(w), RuntimeTypes) /\ IsEvent(Head(w), RuntimeTypes)
  BY EventsTail DEF QueueOK
<1>3. QueueOK(r)
  BY <1>1, <1>2 DEF QueueOK
<1>4. Listed(w) /\ Listed(f) /\ Listed(d) /\ w # << >> /\ Listed(Tail(w))
  BY <1>2, FlowListed DEF EventsIn
<1>5. << >> \o w = w /\ << >> \o Tail(w) = Tail(w)
  BY <1>4, JoinEmpty
<1>6. /\ Seen(q) = w /\ Seen(r) = Tail(w)
      /\ Flow(q) = (w \o f) \o d /\ Flow(r) = (Tail(w) \o f) \o d
  BY <1>1, <1>5 DEF Seen, Flow
<1> HIDE DEF w, f, d
<1>7. ASSUME NEW s, NEW t, Listed(s), s # << >>, Listed(t)
      PROVE  /\ Tail(s \o t) = Tail(s) \o t /\ (s \o t)[1] = s[1] /\ s \o t # << >> /\ Listed(s \o t)
  <2>1. Tail(s \o t) = Tail(s) \o t /\ (s \o t)[1] = Head(s) /\ s \o t # << >>
    BY <1>7, JoinTail
  <2>2. Head(s) = s[1]
    BY <1>7, TailOK
  <2>3. Listed(s \o t)
    BY <1>7, JoinOK
  <2> QED BY <2>1, <2>2, <2>3
<1>8. /\ Tail(w \o f) = Tail(w) \o f /\ (w \o f)[1] = w[1] /\ w \o f # << >> /\ Listed(w \o f)
  BY <1>4, <1>7
<1> DEFINE y == w \o f
<1>9. Tail(y \o d) = Tail(y) \o d /\ (y \o d)[1] = y[1] /\ y \o d # << >> /\ Listed(y \o d)
  <2>1. Listed(y) /\ y # << >>
    BY <1>8
  <2> HIDE DEF y
  <2> QED BY <1>4, <1>7, <2>1
<1>10. Head(w) = w[1]
  BY <1>4, TailOK
<1>11. Takes(q, r, Head(w), out)
  BY <1>1, <1>4, <1>6, <1>8, <1>9, <1>10 DEF Takes
<1> QED BY <1>1, <1>2, <1>3, <1>11 DEF w

-----------------------------------------------------------------------------
(* The invariant.  It says of the chain what Watched says, as long as      *)
(* wrapStream may yet record a success or has: a client that left makes    *)
(* wrapStream drop events, and then nothing is recorded.                   *)

StateFields == {"decoder", "wrapper", "blocks", "frames", "sent"}

Shaped(c, l, q, st) ==
  /\ c \in StreamCases /\ QueueOK(q) /\ DOMAIN st = StateFields
  /\ DOMAIN st.decoder = DecoderFields
  /\ DOMAIN st.blocks = BlockFields /\ IsFiniteSet(Range(st.blocks.tools))
  /\ DOMAIN st.frames = (IF c.protocol = "responses" THEN PartFields ELSE FrameFields)
  /\ c.protocol # "anthropic" => "blocks" \notin l /\ q["blocks"] = << >>

MaySucceed(l, led) == "wrapper" \in l \/ \E k \in 1 .. Len(led) : led[k].ok

(* The frames of the chat protocol do not tell of the usage.               *)
Followed(c, l, q, st, rc, led) ==
  IF c.protocol = "openai_chat" THEN Frame(rc, FALSE, 0) ELSE MaySucceed(l, led) => Watched(q, l, st, rc)

Booked(l, st, led) ==
  /\ Listed(led) /\ Len(led) <= 1
  /\ "wrapper" \in l /\ ~st.wrapper.recorded => led = << >>
  /\ \A k \in 1 .. Len(led) : led[k].ok => "wrapper" \notin l /\ led[k].usage = st.wrapper.usage

StreamInv ==
  /\ Shaped(stream, live, queue, state)
  /\ Followed(stream, live, queue, state, received, ledger)
  /\ Booked(live, state, ledger)

(* The decoder's queue grows.                                              *)
LEMMA HandOK ==
  ASSUME NEW q, QueueOK(q), NEW out, EventsIn(out, RuntimeTypes), NEW r, r = [q EXCEPT !["decoder"] = @ \o out]
  PROVE  QueueOK(r) /\ r["blocks"] = q["blocks"]
<1>1. /\ DOMAIN r = Stages /\ r["decoder"] = q["decoder"] \o out
      /\ r["forwarder"] = q["forwarder"] /\ r["wrapper"] = q["wrapper"] /\ r["blocks"] = q["blocks"]
  BY DEF QueueOK, Stages
<1>2. EventsIn(q["decoder"] \o out, RuntimeTypes)
  BY EventsJoin DEF QueueOK
<1> QED BY <1>1, <1>2 DEF QueueOK

(* The decoder reads a chunk: what it hands over tells of what it knows.   *)
LEMMA DecodeInv ==
  ASSUME StreamInv, Decode
  PROVE  StreamInv'
<1> DEFINE r == DecodeChunk(state.decoder, Head(body))
<1>1. /\ "decoder" \in live /\ state' = [state EXCEPT !.decoder = r.state]
      /\ queue' = [queue EXCEPT !["decoder"] = @ \o r.out]
      /\ UNCHANGED <<stream, live, received, ledger>>
  BY DEF Decode, CanTurn, Hands
<1>2. /\ QueueOK(queue) /\ DOMAIN state = StateFields /\ DOMAIN state.decoder = DecoderFields
  BY DEF StreamInv, Shaped
<1>3. /\ DOMAIN r.state = DecoderFields
      /\ EventsIn(r.out, RuntimeTypes) /\ Unclosed(r.out) /\ Tells(state.decoder.usage, r.out, r.state.usage)
  BY <1>2, DecodeOK
<1> HIDE DEF r
<1>4. /\ DOMAIN state' = StateFields /\ state'.decoder = r.state /\ state'.wrapper = state.wrapper
      /\ state'.blocks = state.blocks /\ state'.frames = state.frames
  BY <1>1, <1>2 DEF StateFields
<1>5. QueueOK(queue') /\ queue'["blocks"] = queue["blocks"]
  BY <1>1, <1>2, <1>3, HandOK
<1>6. Shaped(stream', live', queue', state')
  BY <1>1, <1>3, <1>4, <1>5 DEF StreamInv, Shaped
<1>7. Sound(state.decoder.usage, r.out) /\ Reached(state.decoder.usage, r.out, Len(r.out), state'.decoder.usage)
  BY <1>3, <1>4 DEF Tells
<1>8. ASSUME Watched(queue, live, state, received) PROVE Watched(queue', live, state', received)
  BY <1>1, <1>2, <1>3, <1>4, <1>7, <1>8, WatchDecode
<1>9. Followed(stream', live', queue', state', received', ledger')
  BY <1>1, <1>8 DEF StreamInv, Followed
<1>10. Booked(live', state', ledger')
  BY <1>1, <1>4 DEF StreamInv, Booked
<1> QED BY <1>6, <1>9, <1>10 DEF StreamInv

(* The decoder hands over its last events and returns.                     *)
LEMMA DecoderReturns ==
  ASSUME StreamInv, "decoder" \in live, NEW out, EventsIn(out, RuntimeTypes), Sound(state.decoder.usage, out),
         Hands("decoder", out), Returns("decoder"), UNCHANGED <<stream, state, received, ledger>>
  PROVE  StreamInv'
<1>1. /\ live' = live \ {"decoder"} /\ queue' = [queue EXCEPT !["decoder"] = @ \o out]
      /\ "decoder" \notin live' /\ ("wrapper" \in live' <=> "wrapper" \in live)
      /\ ("blocks" \in live' <=> "blocks" \in live)
  BY DEF Hands, Returns
<1>2. QueueOK(queue)
  BY DEF StreamInv, Shaped
<1>3. QueueOK(queue') /\ queue'["blocks"] = queue["blocks"]
  BY <1>1, <1>2, HandOK
<1>4. Shaped(stream', live', queue', state')
  BY <1>1, <1>3 DEF StreamInv, Shaped
<1>5. Watched(queue, live, state, received) => Watched(queue', live', state, received)
  BY <1>1, <1>2, WatchDecode
<1>6. Followed(stream', live', queue', state', received', ledger')
  BY <1>1, <1>5 DEF StreamInv, Followed, MaySucceed
<1>7. Booked(live', state', ledger')
  BY <1>1 DEF StreamInv, Booked
<1> QED BY <1>4, <1>6, <1>7 DEF StreamInv

(* The decoder ends, with the usage it knows or an estimate.               *)
LEMMA DecodeEndsInv ==
  ASSUME StreamInv, DecodeEnds
  PROVE  StreamInv'
<1> DEFINE out == DecodeEnd(state.decoder, stream.estimate)
<1>1. /\ "decoder" \in live /\ Hands("decoder", out) /\ Returns("decoder")
      /\ UNCHANGED <<stream, state, received, ledger>>
  BY DEF DecodeEnds, CanTurn
<1>2. EventsIn(out, RuntimeTypes) /\ \E w : Tells(state.decoder.usage, out, w)
  BY DecodeEndOK
<1>3. Sound(state.decoder.usage, out)
  BY <1>2 DEF Tells
<1> HIDE DEF out
<1> QED BY <1>1, <1>2, <1>3, DecoderReturns

(* The decoder breaks off with an error, which has no usage.               *)
LEMMA DecodeFailsInv ==
  ASSUME StreamInv, DecodeFails
  PROVE  StreamInv'
<1> DEFINE out == <<Event("error")>>
<1>1. /\ "decoder" \in live /\ Hands("decoder", out) /\ Returns("decoder")
      /\ UNCHANGED <<stream, state, received, ledger>>
  BY DEF DecodeFails, CanTurn
<1>2. Dumb(Event("error"), RuntimeTypes)
  BY SMT DEF Dumb, IsEvent, Event, EventFields, RuntimeTypes
<1>3. DumbIn(out, RuntimeTypes)
  BY <1>2, DumbFew
<1>4. EventsIn(out, RuntimeTypes) /\ \A u : Tells(u, out, u)
  BY <1>3, DumbOK
<1>5. Sound(state.decoder.usage, out)
  BY <1>4 DEF Tells
<1> HIDE DEF out
<1> QED BY <1>1, <1>4, <1>5, DecoderReturns

(* A goroutine other than the decoder and wrapStream returns.              *)
LEMMA StageReturns ==
  ASSUME StreamInv, NEW s \in {"forwarder", "blocks", "frames"}, Returns(s),
         UNCHANGED <<stream, queue, state, received, ledger>>
  PROVE  StreamInv'
<1>1. /\ ("decoder" \in live' <=> "decoder" \in live) /\ ("wrapper" \in live' <=> "wrapper" \in live)
      /\ ("blocks" \in live' => "blocks" \in live)
  BY DEF Returns
<1>2. Shaped(stream', live', queue', state')
  BY <1>1 DEF StreamInv, Shaped
<1>3. Watched(queue, live, state, received) => Watched(queue, live', state, received)
  BY <1>1 DEF Watched, Over, Frame
<1>4. Followed(stream', live', queue', state', received', ledger')
  BY <1>1, <1>3 DEF StreamInv, Followed, MaySucceed
<1>5. Booked(live', state', ledger')
  BY <1>1 DEF StreamInv, Booked
<1> QED BY <1>2, <1>4, <1>5 DEF StreamInv

(* The forwarder moves an event on, or returns.                            *)
LEMMA ForwardInv ==
  ASSUME StreamInv, Forward
  PROVE  StreamInv'
<1>0. UNCHANGED <<stream, state, received, ledger>>
  BY DEF Forward
<1>1. CASE /\ queue["decoder"] # << >> /\ Passes("decoder", "forwarder", <<Head(queue["decoder"])>>) /\ UNCHANGED live
  <2>1. queue' = [queue EXCEPT !["decoder"] = Tail(@), !["forwarder"] = @ \o <<Head(queue["decoder"])>>]
    BY <1>1 DEF Passes
  <2>2. QueueOK(queue)
    BY DEF StreamInv, Shaped
  <2>3. QueueOK(queue') /\ (Watched(queue, live, state, received) => Watched(queue', live, state, received))
    BY <1>1, <2>1, <2>2, WatchForward
  <2>4. queue'["blocks"] = queue["blocks"]
    BY <2>1, <2>2 DEF QueueOK, Stages
  <2>5. Shaped(stream', live', queue', state')
    BY <1>0, <1>1, <2>3, <2>4 DEF StreamInv, Shaped
  <2>6. Followed(stream', live', queue', state', received', ledger')
    BY <1>0, <1>1, <2>3 DEF StreamInv, Followed
  <2>7. Booked(live', state', ledger')
    BY <1>0, <1>1 DEF StreamInv, Booked
  <2> QED BY <2>5, <2>6, <2>7 DEF StreamInv
<1>2. CASE Returns("forwarder") /\ UNCHANGED queue
  BY <1>0, <1>2, StageReturns
<1> QED BY <1>1, <1>2 DEF Forward

(* wrapStream notes an event's usage and passes it on; an error is         *)
(* recorded once, as a failure.                                            *)
LEMMA WrapEventInv ==
  ASSUME StreamInv, WrapEvent
  PROVE  StreamInv'
<1> DEFINE e == Head(queue["forwarder"])
           w == WrapUsage(state.wrapper, e)
           failed == e.type = "error" /\ ~state.wrapper.recorded
           entry == [ok |-> FALSE, usage |-> w.usage]
<1>1. /\ "wrapper" \in live /\ queue["forwarder"] # << >>
      /\ queue' = [queue EXCEPT !["forwarder"] = Tail(@), !["wrapper"] = @ \o <<e>>]
      /\ state' = [state EXCEPT !.wrapper = w]
      /\ ledger' = ledger \o With(failed, <<entry>>)
      /\ UNCHANGED <<stream, live, received>>
  BY DEF WrapEvent, CanTurn, Passes
<1>2. QueueOK(queue) /\ DOMAIN state = StateFields
  BY DEF StreamInv, Shaped
<1>3. /\ w.usage = UsageAfter(state.wrapper.usage, e)
      /\ (~w.recorded => ~state.wrapper.recorded) /\ (e.type = "error" => w.recorded)
  <2> HIDE DEF e
  <2>1. w.usage = (IF e.usage # 0 THEN e.usage ELSE state.wrapper.usage)
    BY DEF WrapUsage
  <2>2. w.recorded = (state.wrapper.recorded \/ e.type = "error")
    BY DEF WrapUsage
  <2> HIDE DEF w
  <2> QED BY <2>1, <2>2 DEF UsageAfter
<1>4. /\ DOMAIN state' = StateFields /\ state'.decoder = state.decoder /\ state'.wrapper = w
      /\ state'.blocks = state.blocks /\ state'.frames = state.frames
  <2> HIDE DEF w
  <2> QED BY <1>1, <1>2 DEF StateFields
<1>5. entry.ok = FALSE
  OBVIOUS
<1> HIDE DEF w, entry
<1>6. QueueOK(queue') /\ (Watched(queue, live, state, received) => Watched(queue', live, state', received))
  <2>1. state'.wrapper.usage = UsageAfter(state.wrapper.usage, Head(queue["forwarder"]))
    BY <1>3, <1>4
  <2>2. queue' = [queue EXCEPT !["forwarder"] = Tail(@), !["wrapper"] = @ \o <<Head(queue["forwarder"])>>]
    BY <1>1
  <2> QED BY <1>1, <1>2, <1>4, <2>1, <2>2, WatchWrap
<1>7. queue'["blocks"] = queue["blocks"]
  BY <1>1, <1>2 DEF QueueOK, Stages
<1>8. Shaped(stream', live', queue', state')
  BY <1>1, <1>4, <1>6, <1>7 DEF StreamInv, Shaped
<1>9. Followed(stream', live', queue', state', received', ledger')
  BY <1>1, <1>6 DEF StreamInv, Followed, MaySucceed
<1>10. Listed(ledger) /\ Len(ledger) <= 1 /\ (\A k \in 1 .. Len(ledger) : ~ledger[k].ok)
  BY <1>1 DEF StreamInv, Booked
<1>11. CASE failed
  <2>1. ledger = << >>
    BY <1>1, <1>11 DEF StreamInv, Booked
  <2>2. ledger' = <<entry>>
    BY <1>1, <1>11, <2>1, FewListed, JoinEmpty DEF With
  <2>3. Listed(<<entry>>) /\ Len(<<entry>>) = 1 /\ <<entry>>[1] = entry
    BY FewListed
  <2>4. 1 .. 1 = {1} /\ 1 <= 1
    BY SMT
  <2>5. w.recorded
    BY <1>3, <1>11
  <2> QED BY <1>4, <1>5, <1>8, <1>9, <2>2, <2>3, <2>4, <2>5 DEF StreamInv, Booked
<1>12. CASE ~failed
  <2>1. ledger' = ledger
    BY <1>1, <1>10, <1>12, JoinEmpty DEF With
  <2>2. ~w.recorded => ~state.wrapper.recorded
    BY <1>3
  <2>3. ~w.recorded => ledger = << >>
    BY <1>1, <2>2 DEF StreamInv, Booked
  <2> QED BY <1>4, <1>8, <1>9, <1>10, <2>1, <2>3 DEF StreamInv, Booked
<1> QED BY <1>11, <1>12

(* wrapStream records a success with the usage it has read so far.         *)
LEMMA WrapClosedInv ==
  ASSUME StreamInv, WrapClosed
  PROVE  StreamInv'
<1> DEFINE entry == [ok |-> TRUE, usage |-> state.wrapper.usage]
<1>1. /\ "wrapper" \in live /\ Returns("wrapper")
      /\ ledger' = ledger \o With(~state.wrapper.recorded, <<entry>>)
      /\ UNCHANGED <<stream, queue, state, received>>
  BY DEF WrapClosed, CanTurn
<1>2. /\ ("decoder" \in live' <=> "decoder" \in live) /\ "wrapper" \notin live'
      /\ ("blocks" \in live' => "blocks" \in live)
  BY <1>1 DEF Returns
<1>3. Shaped(stream', live', queue', state')
  BY <1>1, <1>2 DEF StreamInv, Shaped
<1>4. Watched(queue, live, state, received) => Watched(queue, live', state, received)
  BY <1>2 DEF Watched, Over, Frame
<1>5. Followed(stream', live', queue', state', received', ledger')
  BY <1>1, <1>4 DEF StreamInv, Followed, MaySucceed
<1>6. entry.usage = state.wrapper.usage
  OBVIOUS
<1> HIDE DEF entry
<1>7. Listed(ledger) /\ Len(ledger) <= 1 /\ (\A k \in 1 .. Len(ledger) : ~ledger[k].ok)
  BY <1>1 DEF StreamInv, Booked
<1>8. CASE ~state.wrapper.recorded
  <2>1. ledger = << >>
    BY <1>1, <1>8 DEF StreamInv, Booked
  <2>2. ledger' = <<entry>>
    BY <1>1, <1>8, <2>1, FewListed, JoinEmpty DEF With
  <2>3. Listed(<<entry>>) /\ Len(<<entry>>) = 1 /\ <<entry>>[1] = entry
    BY FewListed
  <2>4. 1 .. 1 = {1} /\ 1 <= 1
    BY SMT
  <2> QED BY <1>1, <1>2, <1>3, <1>5, <1>6, <2>2, <2>3, <2>4 DEF StreamInv, Booked
<1>9. CASE state.wrapper.recorded
  <2>1. ledger' = ledger
    BY <1>1, <1>7, <1>9, JoinEmpty DEF With
  <2> QED BY <1>1, <1>2, <1>3, <1>5, <1>7, <2>1 DEF StreamInv, Booked
<1> QED BY <1>8, <1>9

(* wrapStream drops events when the context is done: there was no success  *)
(* and there will be none.                                                 *)
LEMMA WrapCancelledInv ==
  ASSUME StreamInv, WrapCancelled
  PROVE  StreamInv'
<1>1. /\ "wrapper" \in live /\ Returns("wrapper") /\ queue' = [queue EXCEPT !["wrapper"] = << >>]
      /\ UNCHANGED <<stream, state, received, ledger>>
  BY DEF WrapCancelled
<1>2. /\ "wrapper" \notin live' /\ ("blocks" \in live' => "blocks" \in live)
  BY <1>1 DEF Returns
<1>3. QueueOK(queue)
  BY DEF StreamInv, Shaped
<1>4. /\ DOMAIN queue' = Stages /\ queue'["wrapper"] = << >> /\ queue'["forwarder"] = queue["forwarder"]
      /\ queue'["decoder"] = queue["decoder"] /\ queue'["blocks"] = queue["blocks"]
  BY <1>1, <1>3 DEF QueueOK, Stages
<1>5. QueueOK(queue')
  BY <1>3, <1>4, EventsFew DEF QueueOK
<1>6. Shaped(stream', live', queue', state')
  BY <1>1, <1>2, <1>4, <1>5 DEF StreamInv, Shaped
<1>7. \A k \in 1 .. Len(ledger) : ~ledger[k].ok
  BY <1>1 DEF StreamInv, Booked
<1>8. Followed(stream', live', queue', state', received', ledger')
  BY <1>1, <1>2, <1>7 DEF StreamInv, Followed, MaySucceed
<1>9. Booked(live', state', ledger')
  BY <1>1, <1>2, <1>7 DEF StreamInv, Booked
<1> QED BY <1>6, <1>8, <1>9 DEF StreamInv

(* Whatever came before, the Responses codec keeps its variables.          *)
LEMMA ResponsesFields ==
  ASSUME NEW p, DOMAIN p = PartFields, NEW e, IsEvent(e, RuntimeTypes)
  PROVE  DOMAIN ResponsesFrames(p, e).state = PartFields
<1> DEFINE q == FinalizeTextPart(p).state
<1>1. DOMAIN q = PartFields
  BY FinalizeOK
<1>2. CASE e.type = "delta"
  <2>1. DOMAIN ResponsesDelta(p, e).state = PartFields
    BY ResponsesDeltaOK
  <2> QED BY <1>2, <2>1 DEF ResponsesFrames
<1>3. CASE e.type = "tool"
  <2>1. ResponsesFrames(p, e).state = [q EXCEPT !.calls = Append(@, e.data)]
    BY <1>3 DEF ResponsesFrames
  <2> HIDE DEF q
  <2> QED BY <1>1, <2>1
<1>4. CASE e.type = "usage"
  <2>1. ResponsesFrames(p, e).state = [p EXCEPT !.usage = e.usage]
    BY <1>4 DEF ResponsesFrames
  <2> QED BY <2>1
<1>5. CASE e.type \in {"start", "error"}
  <2>1. ResponsesFrames(p, e).state = p
    BY <1>5 DEF ResponsesFrames
  <2> QED BY <2>1
<1>6. CASE e.type = "end"
  <2>1. ResponsesFrames(p, e).state = q
    BY <1>6 DEF ResponsesFrames
  <2> QED BY <1>1, <2>1
<1>7. e.type \in RuntimeTypes
  BY DEF IsEvent
<1> QED BY <1>2, <1>3, <1>4, <1>5, <1>6, <1>7 DEF RuntimeTypes

(* Any order of the open blocks is a list.                                 *)
LEMMA OrderListed ==
  ASSUME NEW S, IsFiniteSet(S), NEW order \in SetToSeqs(S)
  PROVE  Listed(order)
<1>1. Cardinality(S) \in Nat
  BY FS_CardinalityType
<1>2. order \in [1 .. Cardinality(S) -> S]
  BY DEF SetToSeqs
<1>3. order \in Seq(S)
  BY SMT, <1>1, <1>2
<1> QED BY <1>3, AnyListed

(* EventStreamFromRuntime turns an event into blocks, or returns.          *)
LEMMA ToBlocksInv ==
  ASSUME StreamInv, ToBlocks
  PROVE  StreamInv'
<1>0. "blocks" \in live /\ Len(queue["blocks"]) <= 0 /\ UNCHANGED <<stream, received, ledger>>
  BY DEF ToBlocks, CanTurn
<1>1. /\ QueueOK(queue) /\ DOMAIN state = StateFields /\ DOMAIN state.blocks = BlockFields
      /\ IsFiniteSet(Range(state.blocks.tools)) /\ stream.protocol = "anthropic"
  BY <1>0 DEF StreamInv, Shaped
<1>2. queue["blocks"] = << >>
  <2>1. Listed(queue["blocks"])
    BY <1>1, FlowListed
  <2> QED BY SMT, <1>0, <2>1, ListOK
<1>3. ASSUME queue["wrapper"] # << >>, NEW order \in SetToSeqs(Range(state.blocks.tools)), UNCHANGED live,
             LET b == BlockEvents(state.blocks, Head(queue["wrapper"]), order)
             IN  Passes("wrapper", "blocks", b.out) /\ state' = [state EXCEPT !.blocks = b.state]
      PROVE  StreamInv'
  <2> DEFINE e == Head(queue["wrapper"])
             b == BlockEvents(state.blocks, e, order)
  <2>1. /\ queue' = [queue EXCEPT !["wrapper"] = Tail(@), !["blocks"] = @ \o b.out]
        /\ state' = [state EXCEPT !.blocks = b.state]
    BY <1>3 DEF Passes
  <2>2. IsEvent(e, RuntimeTypes)
    BY <1>1, <1>3, EventsTail DEF QueueOK
  <2>3. Listed(order)
    BY <1>1, <1>3, OrderListed
  <2>4. DOMAIN b.state = BlockFields /\ IsFiniteSet(Range(b.state.tools)) /\ Carries(b.out, e, BlockTypes)
    BY <1>1, <2>2, <2>3, BlocksOK
  <2> HIDE DEF b
  <2>5. /\ DOMAIN state' = StateFields /\ state'.decoder = state.decoder /\ state'.wrapper = state.wrapper
        /\ state'.blocks = b.state /\ state'.frames = state.frames
    BY <1>1, <2>1 DEF StateFields
  <2>6. QueueOK(queue') /\ (Watched(queue, live, state, received) => Watched(queue', live, state', received))
    <3>1. Carries(b.out, Head(queue["wrapper"]), BlockTypes)
      BY <2>4
    <3> DEFINE out == b.out
    <3>2. MakesBlocks(queue, queue', out)
      BY <1>1, <1>2, <1>3, <2>1, <3>1 DEF MakesBlocks
    <3> HIDE DEF out, e
    <3> QED BY <2>5, <3>2, WatchBlocks
  <2>7. Shaped(stream', live', queue', state')
    BY <1>0, <1>1, <1>3, <2>4, <2>5, <2>6 DEF StreamInv, Shaped
  <2>8. Followed(stream', live', queue', state', received', ledger')
    BY <1>0, <1>3, <2>6 DEF StreamInv, Followed
  <2>9. Booked(live', state', ledger')
    BY <1>0, <1>3, <2>5 DEF StreamInv, Booked
  <2> QED BY <2>7, <2>8, <2>9 DEF StreamInv
<1>4. CASE Returns("blocks") /\ UNCHANGED <<queue, state>>
  BY <1>0, <1>4, StageReturns
<1> QED BY <1>3, <1>4 DEF ToBlocks

(* The Anthropic codec turns a block event into frames, or returns.        *)
LEMMA ToFramesInv ==
  ASSUME StreamInv, ToFrames
  PROVE  StreamInv'
<1>0. stream.protocol = "anthropic" /\ UNCHANGED <<stream, received, ledger>>
  BY DEF ToFrames
<1>1. QueueOK(queue) /\ DOMAIN state = StateFields /\ DOMAIN state.frames = FrameFields
  BY <1>0 DEF StreamInv, Shaped
<1> DEFINE e == Head(queue["blocks"])
           f == AnthropicFrames(state.frames, e)
<1>2. CASE queue["blocks"] # << >> /\ Passes("blocks", "frames", f.out) /\ state' = [state EXCEPT !.frames = f.state]
           /\ UNCHANGED live
  <2>1. queue' = [queue EXCEPT !["blocks"] = Tail(@), !["frames"] = @ \o f.out]
    BY <1>2 DEF Passes
  <2>2. QueueOK(queue') /\ Takes(queue, queue', e, f.out) /\ IsEvent(e, BlockTypes)
    <3> HIDE DEF f
    <3> QED BY <1>1, <1>2, <2>1, TakeBlocks
  <2>3. /\ DOMAIN f.state = FrameFields /\ f.state.usage = UsageAfter(state.frames.usage, e)
        /\ Frame(f.out, Closing(e), UsageAfter(state.frames.usage, e))
    BY <1>1, <2>2, AnthropicOK
  <2> HIDE DEF f, e
  <2>4. /\ DOMAIN state' = StateFields /\ state'.decoder = state.decoder /\ state'.wrapper = state.wrapper
        /\ state'.blocks = state.blocks /\ state'.frames = f.state
    BY <1>1, <1>2 DEF StateFields
  <2>5. state'.frames.usage = UsageAfter(state.frames.usage, e)
    BY <2>3, <2>4
  <2>6. ASSUME Watched(queue, live, state, received) PROVE Watched(queue', live, state', received)
    BY <2>2, <2>3, <2>4, <2>5, <2>6, WatchTake
  <2>7. Shaped(stream', live', queue', state')
    BY <1>0, <1>2, <2>2, <2>3, <2>4 DEF StreamInv, Shaped
  <2>8. Followed(stream', live', queue', state', received', ledger')
    BY <1>0, <1>2, <2>6 DEF StreamInv, Followed
  <2>9. Booked(live', state', ledger')
    BY <1>0, <1>2, <2>4 DEF StreamInv, Booked
  <2> QED BY <2>7, <2>8, <2>9 DEF StreamInv
<1>3. CASE Returns("frames") /\ UNCHANGED <<queue, state>>
  BY <1>0, <1>3, StageReturns
<1> QED BY <1>2, <1>3 DEF ToFrames

(* The Responses codec turns an event into frames, or returns.             *)
LEMMA CollectFramesInv ==
  ASSUME StreamInv, CollectFrames
  PROVE  StreamInv'
<1>0. stream.protocol = "responses" /\ UNCHANGED <<stream, received, ledger>>
  BY DEF CollectFrames
<1>1. QueueOK(queue) /\ DOMAIN state = StateFields /\ DOMAIN state.frames = PartFields /\ queue["blocks"] = << >>
  BY <1>0 DEF StreamInv, Shaped
<1> DEFINE e == Head(queue["wrapper"])
           f == ResponsesFrames(state.frames, e)
<1>2. CASE queue["wrapper"] # << >> /\ Passes("wrapper", "frames", f.out) /\ state' = [state EXCEPT !.frames = f.state]
           /\ UNCHANGED live
  <2>1. queue' = [queue EXCEPT !["wrapper"] = Tail(@), !["frames"] = @ \o f.out]
    BY <1>2 DEF Passes
  <2>2. /\ QueueOK(queue') /\ queue'["blocks"] = << >>
        /\ Takes(queue, queue', e, f.out) /\ IsEvent(e, RuntimeTypes)
    <3> HIDE DEF f
    <3> QED BY <1>1, <1>2, <2>1, TakeEvents
  <2>3. DOMAIN f.state = PartFields
    BY <1>1, <2>2, ResponsesFields
  <2>4. /\ DOMAIN state' = StateFields /\ state'.decoder = state.decoder /\ state'.wrapper = state.wrapper
        /\ state'.blocks = state.blocks /\ state'.frames = f.state
    <3> HIDE DEF f
    <3> QED BY <1>1, <1>2 DEF StateFields
  <2>5. ASSUME Watched(queue, live, state, received) PROVE Watched(queue', live, state', received)
    <3>1. Closing(e) => e.usage = state.frames.usage
      <4>1. /\ Listed(Flow(queue)) /\ Flow(queue) # << >> /\ Flow(queue)[1] = e
            /\ Sound(state.frames.usage, Flow(queue))
        BY <2>2, <2>5 DEF Watched, Takes
      <4>2. Closing(Flow(queue)[1]) => Flow(queue)[1].usage = state.frames.usage
        BY <4>1, SoundTail
      <4> QED BY <4>1, <4>2
    <3>2. /\ f.state.usage = UsageAfter(state.frames.usage, e)
          /\ Frame(f.out, Closing(e), UsageAfter(state.frames.usage, e))
      BY <1>1, <2>2, <3>1, ResponsesOK
    <3> HIDE DEF f, e
    <3>3. state'.frames.usage = UsageAfter(state.frames.usage, e)
      BY <2>4, <3>2
    <3> QED BY <2>2, <2>4, <2>5, <3>2, <3>3, WatchTake
  <2> HIDE DEF f, e
  <2>6. Shaped(stream', live', queue', state')
    BY <1>0, <1>2, <2>2, <2>3, <2>4 DEF StreamInv, Shaped
  <2>7. Followed(stream', live', queue', state', received', ledger')
    BY <1>0, <1>2, <2>5 DEF StreamInv, Followed
  <2>8. Booked(live', state', ledger')
    BY <1>0, <1>2, <2>4 DEF StreamInv, Booked
  <2> QED BY <2>6, <2>7, <2>8 DEF StreamInv
<1>3. CASE Returns("frames") /\ UNCHANGED <<queue, state>>
  BY <1>0, <1>3, StageReturns
<1> QED BY <1>2, <1>3 DEF CollectFrames

(* A frame more is written.                                                *)
LEMMA FrameAppend ==
  ASSUME NEW s, NEW c, NEW u, Frame(s, c, u), NEW x, x.type \in ToldTypes => c /\ x.usage = u
  PROVE  Frame(Append(s, x), c, u)
<1>1. Frame(<<x>>, c, u)
  BY FrameFew
<1>2. Frame(s \o <<x>>, c, u)
  BY <1>1, FrameJoin
<1>3. s \in Seq(ToSet(s))
  BY DEF Frame, Listed
<1>4. Append(s, x) = s \o <<x>>
  BY SMT, <1>3
<1> QED BY <1>2, <1>4

(* The frames that are left tell of what they told before.                 *)
LEMMA FrameTail ==
  ASSUME NEW s, NEW c, NEW u, Frame(s, c, u), s # << >>
  PROVE  Frame(Tail(s), c, u) /\ (Head(s).type \in ToldTypes => c /\ Head(s).usage = u)
<1>1. Listed(s) /\ \A k \in 1 .. Len(s) : s[k].type \in ToldTypes => c /\ s[k].usage = u
  BY DEF Frame
<1>2. /\ Listed(Tail(s)) /\ Len(Tail(s)) = Len(s) - 1 /\ Head(s) = s[1] /\ Len(s) \in Nat /\ Len(s) >= 1
      /\ \A k \in 1 .. Len(s) - 1 : Tail(s)[k] = s[k + 1]
  BY <1>1, ListOK, TailOK
<1>3. 1 \in 1 .. Len(s) /\ \A k \in 1 .. Len(Tail(s)) : k + 1 \in 1 .. Len(s) /\ k \in 1 .. Len(s) - 1
  BY SMT, <1>2
<1> QED BY <1>1, <1>2, <1>3 DEF Frame

(* A chunk of the chat protocol has the type of its event.                 *)
LEMMA ChunkOK ==
  ASSUME NEW sent, NEW e, IsEvent(e, RuntimeTypes)
  PROVE  OpenAIChunk(sent, e).out.type \notin ToldTypes
<1>1. DOMAIN e = EventFields /\ e.type \in RuntimeTypes
  BY DEF IsEvent
<1>2. OpenAIChunk(sent, e).out.type = e.type
  <2>1. CASE e.type = "tool"
    <3> DEFINE d == TrimPrefix(e.data, IF e.index \in DOMAIN sent THEN sent[e.index] ELSE << >>)
    <3>1. OpenAIChunk(sent, e).out = [e EXCEPT !.data = d]
      BY <2>1 DEF OpenAIChunk
    <3> HIDE DEF d
    <3> QED BY <1>1, <3>1 DEF EventFields
  <2>2. CASE e.type = "end"
    <3> DEFINE d == openAIFinishReason(e.finish)
    <3>1. OpenAIChunk(sent, e).out = [e EXCEPT !.finish = d, !.usage = 0]
      BY <2>2 DEF OpenAIChunk
    <3> HIDE DEF d
    <3> QED BY <1>1, <3>1 DEF EventFields
  <2>3. CASE e.type \notin {"tool", "end"}
    BY <2>3 DEF OpenAIChunk
  <2> QED BY <2>1, <2>2, <2>3
<1> QED BY <1>1, <1>2 DEF RuntimeTypes, ToldTypes

(* The handler writes a frame: it goes from the queue to the client.       *)
LEMMA WriteInv ==
  ASSUME StreamInv, Write
  PROVE  StreamInv'
<1>0. UNCHANGED <<stream, live, ledger>> /\ queue[Source] # << >> /\ queue' = [queue EXCEPT ![Source] = Tail(@)]
  BY DEF Write
<1>1. QueueOK(queue) /\ DOMAIN state = StateFields
  BY DEF StreamInv, Shaped
<1>2. CASE stream.protocol = "openai_chat"
  <2> DEFINE e == Head(queue["wrapper"])
             c == OpenAIChunk(state.sent, e)
  <2>1. /\ queue["wrapper"] # << >> /\ queue' = [queue EXCEPT !["wrapper"] = Tail(@)]
        /\ received' = Append(received, c.out) /\ state' = [state EXCEPT !.sent = c.sent]
    BY <1>2 DEF Write, Source
  <2>2. EventsIn(Tail(queue["wrapper"]), RuntimeTypes) /\ IsEvent(e, RuntimeTypes)
    BY <1>1, <2>1, EventsTail DEF QueueOK
  <2>3. c.out.type \notin ToldTypes
    BY <2>2, ChunkOK
  <2> HIDE DEF c
  <2>4. /\ DOMAIN state' = StateFields /\ state'.decoder = state.decoder /\ state'.wrapper = state.wrapper
        /\ state'.blocks = state.blocks /\ state'.frames = state.frames
    BY <1>1, <2>1 DEF StateFields
  <2>5. /\ DOMAIN queue' = Stages /\ queue'["wrapper"] = Tail(queue["wrapper"]) /\ queue'["blocks"] = queue["blocks"]
        /\ queue'["decoder"] = queue["decoder"] /\ queue'["forwarder"] = queue["forwarder"]
    BY <1>1, <2>1 DEF QueueOK, Stages
  <2>6. QueueOK(queue')
    BY <1>1, <2>2, <2>5 DEF QueueOK
  <2>7. Shaped(stream', live', queue', state')
    BY <1>0, <2>4, <2>5, <2>6 DEF StreamInv, Shaped
  <2>8. Frame(received, FALSE, 0)
    BY <1>2 DEF StreamInv, Followed
  <2> DEFINE x == c.out
  <2>9. Frame(Append(received, x), FALSE, 0)
    <3>1. x.type \notin ToldTypes
      BY <2>3
    <3> HIDE DEF x
    <3> QED BY <2>8, <3>1, FrameAppend
  <2>10. Followed(stream', live', queue', state', received', ledger')
    BY <1>0, <1>2, <2>1, <2>9 DEF Followed
  <2>11. Booked(live', state', ledger')
    BY <1>0, <2>4 DEF StreamInv, Booked
  <2> QED BY <2>7, <2>10, <2>11 DEF StreamInv
<1>3. CASE stream.protocol # "openai_chat"
  <2> DEFINE e == Head(queue["frames"])
  <2>1. /\ queue["frames"] # << >> /\ queue' = [queue EXCEPT !["frames"] = Tail(@)]
        /\ received' = Append(received, e) /\ state' = state
    BY <1>3 DEF Write, Source
  <2>2. /\ DOMAIN queue' = Stages /\ queue'["frames"] = Tail(queue["frames"]) /\ queue'["wrapper"] = queue["wrapper"]
        /\ queue'["decoder"] = queue["decoder"] /\ queue'["forwarder"] = queue["forwarder"]
        /\ queue'["blocks"] = queue["blocks"]
    BY <1>1, <2>1 DEF QueueOK, Stages
  <2>3. QueueOK(queue') /\ Flow(queue') = Flow(queue) /\ Seen(queue') = Seen(queue)
    BY <1>1, <2>2 DEF QueueOK, Flow, Seen
  <2>4. Over(queue', live) <=> Over(queue, live)
    BY <2>3 DEF Over
  <2>5. ASSUME Watched(queue, live, state, received) PROVE Watched(queue', live, state, received')
    <3> DEFINE over == Over(queue, live)
               u == state.frames.usage
    <3>1. Frame(queue["frames"], over, u) /\ Frame(received, over, u)
      BY <2>5 DEF Watched
    <3> HIDE DEF over, u
    <3>2. Frame(Tail(queue["frames"]), over, u) /\ (e.type \in ToldTypes => over /\ e.usage = u)
      BY <2>1, <3>1, FrameTail
    <3> HIDE DEF e
    <3>3. Frame(Append(received, e), over, u)
      BY <3>1, <3>2, FrameAppend
    <3>4. Frame(queue'["frames"], Over(queue', live), u) /\ Frame(received', Over(queue', live), u)
      BY <2>1, <2>2, <2>4, <3>2, <3>3 DEF over, Frame
    <3> QED BY <2>3, <2>5, <3>4 DEF Watched, u
  <2>6. Shaped(stream', live', queue', state')
    BY <1>0, <2>1, <2>2, <2>3 DEF StreamInv, Shaped
  <2>7. Followed(stream', live', queue', state', received', ledger')
    BY <1>0, <1>3, <2>1, <2>5 DEF StreamInv, Followed
  <2>8. Booked(live', state', ledger')
    BY <1>0, <2>1 DEF StreamInv, Booked
  <2> QED BY <2>6, <2>7, <2>8 DEF StreamInv
<1> QED BY <1>2, <1>3

(* The handler's last writes, and the client's leaving.                    *)
LEMMA HandlerInv ==
  ASSUME StreamInv, WriteFails \/ WriteEnds \/ ClientLeaves
  PROVE  StreamInv'
<1>1. UNCHANGED <<stream, live, queue, state, ledger>>
  BY DEF WriteFails, WriteEnds, ClientLeaves
<1>2. Shaped(stream', live', queue', state') /\ Booked(live', state', ledger')
  BY <1>1 DEF StreamInv
<1>3. \A c, u : Frame(received, c, u) => Frame(received', c, u)
  <2>1. CASE UNCHANGED received
    BY <2>1
  <2>2. CASE received' = received \o With(stream.protocol # "responses", <<Event("done")>>)
    <3> DEFINE x == Event("done")
    <3>1. x.type \notin ToldTypes
      BY SMT DEF Event, ToldTypes
    <3> HIDE DEF x
    <3>2. SUFFICES ASSUME NEW c, NEW u, Frame(received, c, u) PROVE Frame(received', c, u)
      OBVIOUS
    <3>3. Frame(<<x>>, c, u) /\ Frame(<< >>, c, u)
      BY <3>1, FrameFew
    <3>4. Frame(With(stream.protocol # "responses", <<x>>), c, u)
      BY <3>3 DEF With
    <3>5. Frame(received \o With(stream.protocol # "responses", <<x>>), c, u)
      BY <3>2, <3>4, FrameJoin
    <3> QED BY <2>2, <3>5 DEF x
  <2> QED BY <2>1, <2>2 DEF WriteFails, WriteEnds, ClientLeaves
<1>4. Watched(queue, live, state, received) => Watched(queue, live, state, received')
  BY <1>3 DEF Watched
<1>5. Followed(stream', live', queue', state', received', ledger')
  BY <1>1, <1>3, <1>4 DEF StreamInv, Followed
<1> QED BY <1>2, <1>5 DEF StreamInv

(* Every step keeps the invariant.                                         *)
LEMMA StreamStepOK ==
  ASSUME StreamInv, [StreamingNext]_streamVars
  PROVE  StreamInv'
<1>1. CASE StreamingNext
  <2>1. CASE Decode
    BY <2>1, DecodeInv
  <2>2. CASE DecodeEnds
    BY <2>2, DecodeEndsInv
  <2>3. CASE DecodeFails
    BY <2>3, DecodeFailsInv
  <2>4. CASE Forward
    BY <2>4, ForwardInv
  <2>5. CASE WrapEvent
    BY <2>5, WrapEventInv
  <2>6. CASE WrapClosed
    BY <2>6, WrapClosedInv
  <2>7. CASE WrapCancelled
    BY <2>7, WrapCancelledInv
  <2>8. CASE ToBlocks
    BY <2>8, ToBlocksInv
  <2>9. CASE ToFrames
    BY <2>9, ToFramesInv
  <2>10. CASE CollectFrames
    BY <2>10, CollectFramesInv
  <2>11. CASE Write
    BY <2>11, WriteInv
  <2>12. CASE WriteFails \/ WriteEnds \/ ClientLeaves
    BY <2>12, HandlerInv
  <2> QED BY <1>1, <2>1, <2>2, <2>3, <2>4, <2>5, <2>6, <2>7, <2>8, <2>9, <2>10, <2>11, <2>12
       DEF StreamingNext, GatewayStep
<1>2. CASE UNCHANGED streamVars
  BY <1>2 DEF streamVars, StreamInv
<1> QED BY <1>1, <1>2

(* The chain at the start: empty but for an answer that came whole.        *)
LEMMA StreamInitOK ==
  ASSUME StreamingInit(StreamCases)
  PROVE  StreamInv
<1> DEFINE whole == IF StreamedBody(stream) THEN << >> ELSE streamResponse(stream.response[1])
           first == IF stream.protocol = "responses" THEN <<Event("created"), Event("in_progress")>> ELSE << >>
<1>1. /\ DOMAIN queue = Stages /\ queue["decoder"] = << >> /\ queue["wrapper"] = << >> /\ queue["blocks"] = << >>
      /\ queue["forwarder"] = whole /\ queue["frames"] = first
  <2> DEFINE Q(s) == CASE s = "forwarder" /\ ~StreamedBody(stream) -> streamResponse(stream.response[1])
                       [] s = "frames" /\ stream.protocol = "responses" -> <<Event("created"), Event("in_progress")>>
                       [] OTHER -> << >>
  <2>1. queue = [s \in Stages |-> Q(s)]
    BY DEF StreamingInit
  <2>2. Q("decoder") = << >> /\ Q("wrapper") = << >> /\ Q("blocks") = << >>
    OBVIOUS
  <2>3. Q("forwarder") = whole
    OBVIOUS
  <2>4. Q("frames") = first
    OBVIOUS
  <2> HIDE DEF Q, whole, first
  <2> QED BY <2>1, <2>2, <2>3, <2>4 DEF Stages
<1>2. /\ DOMAIN state = StateFields /\ state.decoder = NewDecoder /\ state.blocks = NewBlocks
      /\ state.wrapper.usage = 0
      /\ state.frames = (IF stream.protocol = "responses" THEN NewParts ELSE NewFrames)
  BY DEF StreamingInit, StateFields
<1>3. /\ DOMAIN state.decoder = DecoderFields /\ state.decoder.usage = 0 /\ DOMAIN state.blocks = BlockFields
      /\ state.blocks.tools = << >>
  <2>1. DOMAIN NewDecoder = DecoderFields /\ NewDecoder.usage = 0
    BY SMT DEF NewDecoder, DecoderFields
  <2>2. DOMAIN NewBlocks = BlockFields /\ NewBlocks.tools = << >>
    BY SMT DEF NewBlocks, BlockFields
  <2> QED BY <1>2, <2>1, <2>2
<1>4. IsFiniteSet(Range(state.blocks.tools))
  <2>1. Range(<< >>) = {}
    BY SMT DEF Range
  <2> QED BY <1>3, <2>1, FS_EmptySet
<1>5. state.frames.usage = 0 /\ DOMAIN state.frames = (IF stream.protocol = "responses" THEN PartFields ELSE FrameFields)
  <2>1. NewParts.usage = 0 /\ DOMAIN NewParts = PartFields
    BY SMT DEF NewParts, PartFields
  <2>2. NewFrames.usage = 0 /\ DOMAIN NewFrames = FrameFields
    BY SMT DEF NewFrames, FrameFields
  <2> QED BY <1>2, <2>1, <2>2
<1>6. stream \in StreamCases /\ received = << >> /\ ledger = << >>
  BY DEF StreamingInit
<1>7. EventsIn(whole, RuntimeTypes) /\ (\E w : Tells(0, whole, w)) /\ (StreamedBody(stream) => whole = << >>)
  <2>1. CASE StreamedBody(stream)
    <3>1. DumbIn(<< >>, RuntimeTypes)
      BY DumbFew
    <3>2. EventsIn(<< >>, RuntimeTypes) /\ Tells(0, << >>, 0)
      BY <3>1, DumbOK
    <3> QED BY <2>1, <3>2
  <2>2. CASE ~StreamedBody(stream)
    <3> DEFINE r == stream.response[1]
    <3>1. r.parts \in Seq(ToSet(r.parts)) /\ r.calls \in Seq(ToSet(r.calls))
      BY <1>6, <2>2, StreamingAssumption
    <3>2. Listed(r.parts) /\ Listed(r.calls)
      BY <3>1 DEF Listed
    <3> HIDE DEF r
    <3>3. EventsIn(streamResponse(r), RuntimeTypes) /\ \E w : Tells(0, streamResponse(r), w)
      BY <3>2, ResponseOK
    <3> QED BY <2>2, <3>3 DEF r
  <2> QED BY <2>1, <2>2
<1>8. \A c, u : Frame(first, c, u) /\ Frame(<< >>, c, u)
  <2> DEFINE x == Event("created")
             y == Event("in_progress")
  <2>1. x.type \notin ToldTypes /\ y.type \notin ToldTypes
    BY SMT DEF Event, ToldTypes
  <2> HIDE DEF x, y
  <2>2. \A c, u : Frame(<<x, y>>, c, u) /\ Frame(<< >>, c, u)
    BY <2>1, FrameMore, FrameFew
  <2> QED BY <2>2 DEF x, y
<1>9. /\ "decoder" \in live => StreamedBody(stream)
      /\ "blocks" \in live => stream.protocol = "anthropic"
  <2>1. stream.protocol \in {"anthropic", "openai_chat", "responses"}
    BY <1>6, StreamingAssumption
  <2> DEFINE L == CASE stream.protocol = "anthropic"   -> {"wrapper", "blocks", "frames"}
                    [] stream.protocol = "responses"   -> {"wrapper", "frames"}
                    [] stream.protocol = "openai_chat" -> {"wrapper"}
  <2>2. live = (IF StreamedBody(stream) THEN {"decoder", "forwarder"} ELSE { }) \cup L
    BY DEF StreamingInit
  <2>3. "decoder" \notin L /\ (stream.protocol # "anthropic" => "blocks" \notin L)
    BY <2>1
  <2> HIDE DEF L
  <2> QED BY <2>2, <2>3
<1> HIDE DEF whole, first
<1>11. QueueOK(queue)
  BY <1>1, <1>7, EventsFew DEF QueueOK
<1>12. Shaped(stream, live, queue, state)
  BY <1>1, <1>2, <1>3, <1>4, <1>5, <1>6, <1>9, <1>11 DEF Shaped
<1>13. Seen(queue) = << >> /\ Flow(queue) = whole
  <2>1. Listed(whole) /\ Listed(<< >>)
    BY <1>7, FewListed DEF EventsIn
  <2>2. << >> \o << >> = << >> /\ << >> \o whole = whole /\ whole \o << >> = whole
    BY <2>1, JoinEmpty
  <2> QED BY <1>1, <2>2 DEF Seen, Flow
<1>14. Reached(0, << >>, Len(<< >>), 0) /\ Unclosed(<< >>)
  <2>1. DumbIn(<< >>, RuntimeTypes)
    BY DumbFew
  <2> QED BY <2>1, DumbOK DEF Tells
<1>15. Sound(0, whole)
  BY <1>7 DEF Tells
<1>16. Watched(queue, live, state, received)
  BY <1>1, <1>2, <1>3, <1>5, <1>6, <1>7, <1>8, <1>9, <1>13, <1>14, <1>15 DEF Watched
<1>17. Followed(stream, live, queue, state, received, ledger)
  BY <1>6, <1>8, <1>16 DEF Followed
<1>18. Booked(live, state, ledger)
  <2>1. 0 <= 1 /\ 1 .. 0 = {}
    BY SMT
  <2> QED BY <1>6, <2>1, FewListed DEF Booked
<1> QED BY <1>12, <1>17, <1>18 DEF StreamInv

(* A part of what does not count does not count.                           *)
LEMMA SilentHead ==
  ASSUME NEW s, NEW t, Listed(s), Listed(t), Silent(s \o t)
  PROVE  Silent(s)
<1>1. /\ Len(s) \in Nat /\ Len(t) \in Nat /\ Len(s \o t) = Len(s) + Len(t)
      /\ \A k \in 1 .. Len(s) : (s \o t)[k] = s[k]
  BY SMT, ListOK, JoinOK
<1>2. \A k \in 1 .. Len(s) : k \in 1 .. Len(s \o t)
  BY SMT, <1>1
<1> QED BY <1>1, <1>2 DEF Silent

(* A frame that told of the usage was made when all of it had been read,   *)
(* and what was recorded is what wrapStream had read by then.              *)
LEMMA StreamInvTells ==
  ASSUME StreamInv
  PROVE  AccountedAsTold
<1>1. /\ Listed(ledger) /\ Len(ledger) <= 1
      /\ \A k \in 1 .. Len(ledger) : ledger[k].ok => ledger[k].usage = state.wrapper.usage
  BY DEF StreamInv, Booked
<1>2. ASSUME NEW n \in 1 .. Len(ledger), ledger[n].ok, NEW k \in DOMAIN received, received[k].type \in ToldTypes
      PROVE  received[k].usage = ledger[n].usage
  <2>1. CASE stream.protocol = "openai_chat"
    <3>1. Frame(received, FALSE, 0)
      BY <2>1 DEF StreamInv, Followed
    <3>2. DOMAIN received = 1 .. Len(received)
      BY <3>1, ListOK DEF Frame
    <3> QED BY <1>2, <3>1, <3>2 DEF Frame
  <2>2. CASE stream.protocol # "openai_chat"
    <3>1. Watched(queue, live, state, received)
      BY <1>2, <2>2 DEF StreamInv, Followed, MaySucceed
    <3>2. Frame(received, Over(queue, live), state.frames.usage)
      BY <3>1 DEF Watched
    <3>3. DOMAIN received = 1 .. Len(received)
      BY <3>2, ListOK DEF Frame
    <3>4. Over(queue, live) /\ received[k].usage = state.frames.usage
      BY <1>2, <3>2, <3>3 DEF Frame
    <3>5. QueueOK(queue)
      BY DEF StreamInv, Shaped
    <3>6. /\ Listed(Seen(queue)) /\ Listed(queue["forwarder"]) /\ Listed(queue["decoder"])
          /\ Listed(Seen(queue) \o queue["forwarder"]) /\ Listed(Flow(queue))
          /\ Flow(queue) = (Seen(queue) \o queue["forwarder"]) \o queue["decoder"]
      BY <3>5, FlowListed
    <3>7. Silent(Flow(queue))
      BY <3>4 DEF Over
    <3>8. Silent(Seen(queue))
      <4> DEFINE s == Seen(queue)
                 t == queue["forwarder"]
                 d == queue["decoder"]
                 st == s \o t
      <4>1. Silent(st \o d) /\ Listed(s) /\ Listed(t) /\ Listed(d) /\ Listed(st)
        BY <3>6, <3>7
      <4>2. Silent(st)
        <5> HIDE DEF st
        <5> QED BY <4>1, SilentHead
      <4> HIDE DEF s, t
      <4>3. Silent(s)
        BY <4>1, <4>2, SilentHead
      <4> QED BY <4>3 DEF s
    <3>9. state.wrapper.usage = state.frames.usage
      BY <3>1, <3>6, <3>8, SilentOK DEF Watched
    <3> QED BY <1>1, <1>2, <3>4, <3>9
  <2> QED BY <2>1, <2>2
<1>3. DOMAIN ledger = 1 .. Len(ledger)
  BY <1>1, ListOK
<1>4. ASSUME NEW r \in Range(ledger), NEW k \in Frames({"message_delta", "completed"}), r.ok
      PROVE  received[k].usage = r.usage
  <2>1. PICK n \in DOMAIN ledger : r = ledger[n]
    BY <1>4 DEF Range
  <2>2. k \in DOMAIN received /\ received[k].type \in ToldTypes
    BY <1>4 DEF Frames, ToldTypes
  <2> QED BY <1>2, <1>3, <1>4, <2>1, <2>2
<1> QED BY <1>1, <1>4 DEF AccountedAsTold

(* The usage recorded for a stream that succeeded is the usage its client  *)
(* was told of, whatever the chunks, the protocol, the buffers and the     *)
(* order in which the goroutines run, and a stream is recorded at most     *)
(* once (wrapStream, internal/gateway/server.go, against                   *)
(* anthropicStreamFramesFromEventStream and openAIResponsesStreamFrames).  *)
THEOREM AccountedAsToldCorrect == StreamingSpec => []AccountedAsTold
<1>1. StreamingInit(StreamCases) => StreamInv
  BY StreamInitOK
<1>2. StreamInv /\ [StreamingNext]_streamVars => StreamInv'
  BY StreamStepOK
<1>3. StreamInv => AccountedAsTold
  BY StreamInvTells
<1> QED BY <1>1, <1>2, <1>3, PTL DEF StreamingSpec
=============================================================================
