---------------------------- MODULE RoutingProofs ----------------------------
(***************************************************************************)
(* Proofs about the router, for any configuration that Validate and New    *)
(* accept, any requests and any order of plans.                            *)
(***************************************************************************)
EXTENDS Routing, FiniteSetTheorems, WellFoundedInduction, TLAPS

(* Zenon finds the proof of a leaf that does not name a prover.            *)
USE Zenon

(* A set of numbers that is not empty has a least element. *)
LEMMA LeastNumber ==
  ASSUME NEW S \in SUBSET Nat, S # {}
  PROVE  \E x \in S : \A y \in S : x <= y
<1>1. PICK R : R = {ss \in Nat \X Nat : ss[1] < ss[2]}
  OBVIOUS
<1>2. PICK x \in S : \A y \in S : ~(<<y, x>> \in R)
  BY <1>1, NatLessThanWellFounded, WFMin DEF OpToRel
<1>3. \A y \in S : <<y, x>> \in Nat \X Nat /\ <<y, x>>[1] = y /\ <<y, x>>[2] = x
  OBVIOUS
<1>4. \A y \in S : ~(y < x)
  BY <1>1, <1>2, <1>3
<1> QED BY SMT, <1>4

-----------------------------------------------------------------------------
(* How often a value occurs in a sequence.                                 *)
At(s, x) == {p \in DOMAIN s : s[p] = x}
Count(s, x) == Cardinality(At(s, x))

IsSeq(s) == s \in Seq(ToSet(s))

(* A sequence is one of any set that has its elements.                     *)
LEMMA SeqOK ==
  ASSUME NEW S, NEW s \in Seq(S)
  PROVE  Len(s) \in Nat /\ DOMAIN s = 1 .. Len(s) /\ \A i \in 1 .. Len(s) : s[i] \in S
BY SMT

(* The occurrences of a value in a sequence can be counted.                *)
LEMMA CountType ==
  ASSUME NEW S, NEW s \in Seq(S), NEW x
  PROVE  IsFiniteSet(At(s, x)) /\ Count(s, x) \in Nat
<1>1. Len(s) \in Nat /\ DOMAIN s = 1 .. Len(s)
  BY SeqOK
<1>2. Len(s) \in Int /\ 1 \in Int
  BY SMT, <1>1
<1>3. IsFiniteSet(1 .. Len(s))
  BY <1>2, FS_Interval
<1>4. At(s, x) \subseteq 1 .. Len(s)
  BY <1>1 DEF At
<1>5. IsFiniteSet(At(s, x))
  BY <1>3, <1>4, FS_Subset
<1> QED BY <1>5, FS_CardinalityType DEF Count

(* The empty sequence, and a sequence of one.                              *)
LEMMA CountSmall ==
  /\ \A x : Count(<< >>, x) = 0
  /\ \A y, x : Count(<<y>>, x) = IF x = y THEN 1 ELSE 0
<1>1. \A x : At(<< >>, x) = {}
  BY SMT DEF At
<1>2. ASSUME NEW y, NEW x PROVE At(<<y>>, x) = IF x = y THEN {1} ELSE {}
  BY SMT DEF At
<1>3. Cardinality({}) = 0
  BY FS_EmptySet
<1>4. Cardinality({1}) = 1
  BY FS_Singleton
<1> QED BY <1>1, <1>2, <1>3, <1>4 DEF Count

(* One after the other: the occurrences of both.                           *)
LEMMA CountConcat ==
  ASSUME NEW S, NEW s \in Seq(S), NEW t \in Seq(S), NEW x
  PROVE  s \o t \in Seq(S) /\ Count(s \o t, x) = Count(s, x) + Count(t, x)
<1> DEFINE m == Len(s)
           shifted == {p + m : p \in At(t, x)}
           f == [p \in At(t, x) |-> p + m]
<1>1. /\ s \o t \in Seq(S) /\ Len(s \o t) = Len(s) + Len(t)
      /\ \A i \in 1 .. Len(s) : (s \o t)[i] = s[i]
      /\ \A i \in 1 .. Len(t) : (s \o t)[i + Len(s)] = t[i]
      /\ m \in Nat /\ Len(t) \in Nat
  BY SMT
<1>2. DOMAIN s = 1 .. m /\ DOMAIN t = 1 .. Len(t) /\ DOMAIN (s \o t) = 1 .. m + Len(t)
  BY SMT, <1>1
<1> HIDE DEF m
<1>3. At(s \o t, x) = At(s, x) \cup shifted
  <2>1. ASSUME NEW p \in At(s \o t, x) PROVE p \in At(s, x) \cup shifted
    <3>1. p \in 1 .. m + Len(t) /\ (s \o t)[p] = x
      BY <1>2 DEF At
    <3>2. CASE p \in 1 .. m
      BY <1>1, <1>2, <3>1, <3>2 DEF At, m
    <3>3. CASE ~(p \in 1 .. m)
      <4>1. p - m \in 1 .. Len(t) /\ (p - m) + m = p
        BY SMT, <1>1, <3>1, <3>3
      <4>2. t[p - m] = x
        BY <1>1, <3>1, <4>1 DEF m
      <4>3. p - m \in At(t, x)
        BY <1>2, <4>1, <4>2 DEF At
      <4> QED BY <4>1, <4>3
    <3> QED BY <3>2, <3>3
  <2>2. ASSUME NEW p \in At(s, x) PROVE p \in At(s \o t, x)
    <3>1. p \in 1 .. m /\ s[p] = x
      BY <1>2 DEF At
    <3>2. p \in 1 .. m + Len(t)
      BY SMT, <1>1, <3>1
    <3> QED BY <1>1, <1>2, <3>1, <3>2 DEF At, m
  <2>3. ASSUME NEW p \in At(t, x) PROVE p + m \in At(s \o t, x)
    <3>1. p \in 1 .. Len(t) /\ t[p] = x
      BY <1>2 DEF At
    <3>2. p + m \in 1 .. m + Len(t)
      BY SMT, <1>1, <3>1
    <3>3. (s \o t)[p + m] = x
      BY <1>1, <3>1 DEF m
    <3> QED BY <1>2, <3>2, <3>3 DEF At
  <2> QED BY <2>1, <2>2, <2>3
<1>4. At(s, x) \cap shifted = {}
  <2> SUFFICES ASSUME NEW p \in At(t, x), p + m \in At(s, x) PROVE FALSE
    OBVIOUS
  <2>1. p \in 1 .. Len(t) /\ p + m \in 1 .. m
    BY <1>2 DEF At
  <2> QED BY SMT, <1>1, <2>1
<1>5. IsFiniteSet(At(s, x)) /\ IsFiniteSet(At(t, x))
  BY CountType
<1>6. f \in Bijection(At(t, x), shifted)
  <2>1. \A p, q \in At(t, x) : p + m = q + m => p = q
    <3>1. \A p \in At(t, x) : p \in Int
      BY SMT, <1>1, <1>2 DEF At
    <3> QED BY SMT, <1>1, <3>1
  <2> QED BY <2>1 DEF Bijection, Injection, Surjection, IsInjective
<1>7. IsFiniteSet(shifted) /\ Cardinality(shifted) = Cardinality(At(t, x))
  BY <1>5, <1>6, FS_Bijection DEF ExistsBijection
<1>8. Cardinality(At(s, x) \cup shifted) = Cardinality(At(s, x)) + Cardinality(shifted) - Cardinality(At(s, x) \cap shifted)
  BY <1>5, <1>7, FS_Union
<1>9. Cardinality({}) = 0
  BY FS_EmptySet
<1>10. Count(s, x) \in Nat /\ Count(t, x) \in Nat
  BY CountType
<1>11. Count(s \o t, x) = Count(s, x) + Count(t, x) - 0
  BY <1>3, <1>4, <1>7, <1>8, <1>9 DEF Count
<1> QED BY SMT, <1>1, <1>10, <1>11

-----------------------------------------------------------------------------
(* f has the parts put together so far, up to all of them.                 *)
Flattens(f, parts) ==
  /\ f[0] = << >>
  /\ \A i \in 1 .. Len(parts) : f[i] = f[i - 1] \o parts[i]
  /\ f[Len(parts)] = FlattenSeq(parts)

(* FlattenSeq joins the parts one by one.                                  *)
LEMMA FlattenOK ==
  ASSUME NEW S, NEW parts \in Seq(Seq(S))
  PROVE  \E f : Flattens(f, parts)
<1> DEFINE n == Len(parts)
           Next1(g, i) == IF i = 0 THEN << >> ELSE g[i - 1] \o parts[i]
           P(m) == \E g : g = [i \in 0 .. m |-> Next1(g, i)]
           bad == {m \in 0 .. n : ~P(m)}
<1>0. n \in Nat /\ \A m \in 0 .. n : m \in Nat
  BY SMT
<1>1. P(0)
  <2> DEFINE g == [i \in 0 .. 0 |-> << >>]
  <2>1. g = [i \in 0 .. 0 |-> Next1(g, i)]
    BY SMT
  <2> HIDE DEF g
  <2> QED BY <2>1
<1>2. ASSUME NEW m \in 1 .. n, P(m - 1) PROVE P(m)
  <2>0. PICK g : g = [i \in 0 .. m - 1 |-> Next1(g, i)]
    BY <1>2
  <2> DEFINE x == Next1(g, m)
             h == [i \in 0 .. m |-> IF i = m THEN x ELSE g[i]]
  <2>1. m \in Nat \ {0}
    BY SMT, <1>0
  <2>2. ASSUME NEW i \in 0 .. m PROVE h[i] = Next1(h, i)
    <3>1. CASE i = m
      <4>1. h[i] = x /\ (i # 0 => h[i - 1] = g[m - 1])
        <5> HIDE DEF x
        <5> QED BY SMT, <2>1, <3>1
      <4> QED BY <3>1, <4>1
    <3>2. CASE i # m
      <4>1. h[i] = g[i] /\ i \in 0 .. m - 1 /\ (i # 0 => h[i - 1] = g[i - 1])
        <5> HIDE DEF x
        <5> QED BY SMT, <2>1, <3>2
      <4>2. g[i] = Next1(g, i)
        BY <2>0, <4>1
      <4> QED BY <4>1, <4>2
    <3> QED BY <3>1, <3>2
  <2>3. h = [i \in 0 .. m |-> h[i]]
    OBVIOUS
  <2> HIDE DEF h
  <2>4. h = [i \in 0 .. m |-> Next1(h, i)]
    BY <2>2, <2>3
  <2> QED BY <2>4
<1> HIDE DEF P
<1>3. bad = {}
  <2> SUFFICES ASSUME bad # {} PROVE FALSE
    OBVIOUS
  <2>1. bad \in SUBSET Nat
    BY <1>0
  <2>2. PICK m \in bad : \A y \in bad : m <= y
    BY <2>1, LeastNumber
  <2>3. m # 0
    BY <1>1, <2>2
  <2>4. m \in 1 .. n /\ m - 1 \in 0 .. n /\ ~(m <= m - 1)
    BY SMT, <1>0, <2>2, <2>3
  <2>5. P(m - 1)
    BY <2>2, <2>4
  <2> QED BY <1>2, <2>2, <2>4, <2>5
<1>4. P(n)
  <2>1. n \in 0 .. n
    BY SMT, <1>0
  <2> QED BY <1>3, <2>1
<1> DEFINE f == CHOOSE g : g = [i \in 0 .. n |-> Next1(g, i)]
<1>5. f = [i \in 0 .. n |-> Next1(f, i)]
  BY <1>4 DEF P
<1>6. FlattenSeq(parts) = f[n]
  BY DEF FlattenSeq, FoldLeft
<1> HIDE DEF f
<1>7. 0 \in 0 .. n /\ \A i \in 1 .. n : i \in 0 .. n /\ i # 0
  BY SMT, <1>0
<1>8. \A i \in 0 .. n : f[i] = Next1(f, i)
  BY <1>5
<1>9. f[0] = << >> /\ \A i \in 1 .. n : f[i] = f[i - 1] \o parts[i]
  BY <1>7, <1>8
<1> QED BY <1>6, <1>9 DEF Flattens

(* The occurrences in all the parts: c has their number so far.            *)
LEMMA CountFlatten ==
  ASSUME NEW S, NEW parts \in Seq(Seq(S)), NEW x, NEW c \in [0 .. Len(parts) -> Nat], c[0] = 0,
         \A i \in 1 .. Len(parts) : c[i] = c[i - 1] + Count(parts[i], x)
  PROVE  FlattenSeq(parts) \in Seq(S) /\ Count(FlattenSeq(parts), x) = c[Len(parts)]
<1> DEFINE n == Len(parts)
<1>0. n \in Nat /\ (\A m \in 0 .. n : m \in Nat) /\ n \in 0 .. n
  BY SMT
<1>1. PICK f : Flattens(f, parts)
  BY FlattenOK
<1>2. f[0] = << >> /\ (\A i \in 1 .. n : f[i] = f[i - 1] \o parts[i]) /\ f[n] = FlattenSeq(parts)
  BY <1>1 DEF Flattens
<1> DEFINE bad == {m \in 0 .. n : ~(f[m] \in Seq(S) /\ Count(f[m], x) = c[m])}
<1>3. << >> \in Seq(S)
  BY SMT
<1>4. bad = {}
  <2> SUFFICES ASSUME bad # {} PROVE FALSE
    OBVIOUS
  <2>1. bad \in SUBSET Nat
    BY <1>0
  <2>2. PICK m \in bad : \A y \in bad : m <= y
    BY <2>1, LeastNumber
  <2>3. m # 0
    BY <1>2, <1>3, <2>2, CountSmall
  <2>4. m \in 1 .. n /\ m - 1 \in 0 .. n /\ ~(m <= m - 1)
    BY SMT, <1>0, <2>2, <2>3
  <2>5. f[m - 1] \in Seq(S) /\ Count(f[m - 1], x) = c[m - 1]
    BY <2>2, <2>4
  <2>6. parts[m] \in Seq(S)
    BY SMT, <2>4
  <2>7. f[m] = f[m - 1] \o parts[m] /\ c[m] = c[m - 1] + Count(parts[m], x)
    BY <1>2, <2>4
  <2> DEFINE y == f[m - 1]
             z == parts[m]
  <2>8. y \o z \in Seq(S) /\ Count(y \o z, x) = Count(y, x) + Count(z, x)
    <3>1. y \in Seq(S) /\ z \in Seq(S)
      BY <2>5, <2>6
    <3> HIDE DEF y, z
    <3> QED BY ONLY SMT, <3>1, CountConcat
  <2> QED BY <2>2, <2>5, <2>7, <2>8
<1> QED BY <1>0, <1>2, <1>4

(* The parts make a sequence.                                              *)
LEMMA FlattenType ==
  ASSUME NEW S, NEW parts \in Seq(Seq(S))
  PROVE  FlattenSeq(parts) \in Seq(S)
<1> DEFINE n == Len(parts)
<1>0. n \in Nat /\ (\A m \in 0 .. n : m \in Nat) /\ n \in 0 .. n
  BY SMT
<1>1. PICK f : Flattens(f, parts)
  BY FlattenOK
<1>2. f[0] = << >> /\ (\A i \in 1 .. n : f[i] = f[i - 1] \o parts[i]) /\ f[n] = FlattenSeq(parts)
  BY <1>1 DEF Flattens
<1> DEFINE bad == {m \in 0 .. n : ~(f[m] \in Seq(S))}
<1>3. << >> \in Seq(S)
  BY SMT
<1>4. bad = {}
  <2> SUFFICES ASSUME bad # {} PROVE FALSE
    OBVIOUS
  <2>1. bad \in SUBSET Nat
    BY <1>0
  <2>2. PICK m \in bad : \A y \in bad : m <= y
    BY <2>1, LeastNumber
  <2>3. m # 0
    BY <1>2, <1>3, <2>2
  <2>4. m \in 1 .. n /\ m - 1 \in 0 .. n /\ ~(m <= m - 1)
    BY SMT, <1>0, <2>2, <2>3
  <2>5. f[m - 1] \in Seq(S)
    BY <2>2, <2>4
  <2>6. parts[m] \in Seq(S)
    BY SMT, <2>4
  <2>7. f[m] = f[m - 1] \o parts[m]
    BY <1>2, <2>4
  <2>8. f[m] \in Seq(S)
    BY <2>5, <2>6, <2>7, CountConcat
  <2> QED BY <2>2, <2>8
<1> QED BY <1>0, <1>2, <1>4

(* A value that occurs in no part but one.                                 *)
LEMMA CountInOne ==
  ASSUME NEW S, NEW parts \in Seq(Seq(S)), NEW x, NEW j \in 1 .. Len(parts),
         \A i \in 1 .. Len(parts) : i # j => Count(parts[i], x) = 0
  PROVE  Count(FlattenSeq(parts), x) = Count(parts[j], x)
<1> DEFINE n == Len(parts)
           a == Count(parts[j], x)
           c == [i \in 0 .. n |-> IF i < j THEN 0 ELSE a]
<1>0. n \in Nat /\ parts[j] \in Seq(S)
  BY SMT
<1>1. a \in Nat
  BY <1>0, CountType
<1> HIDE DEF a
<1>2. c \in [0 .. n -> Nat] /\ c[0] = 0 /\ c[n] = a
  BY SMT, <1>0, <1>1
<1>3. ASSUME NEW i \in 1 .. n PROVE c[i] = c[i - 1] + Count(parts[i], x)
  <2>1. CASE i = j
    <3>1. c[i] = a /\ c[i - 1] = 0 /\ a = 0 + a
      BY SMT, <1>0, <1>1, <2>1
    <3> QED BY <2>1, <3>1 DEF a
  <2>2. CASE i # j
    <3>1. c[i] = c[i - 1] /\ c[i] \in Nat
      BY SMT, <1>0, <1>1, <2>2
    <3>2. c[i] = c[i - 1] + 0
      BY SMT, <3>1
    <3> QED BY <2>2, <3>2
  <2> QED BY <2>1, <2>2
<1> HIDE DEF c
<1>4. Count(FlattenSeq(parts), x) = c[n]
  BY <1>2, <1>3, CountFlatten
<1> QED BY <1>2, <1>4 DEF a

(* A value that occurs in none, and one that occurs once in each.          *)
LEMMA CountInNone ==
  ASSUME NEW S, NEW parts \in Seq(Seq(S)), NEW x,
         \A i \in 1 .. Len(parts) : Count(parts[i], x) = 0
  PROVE  Count(FlattenSeq(parts), x) = 0
<1> DEFINE n == Len(parts)
           c == [i \in 0 .. n |-> 0]
<1>1. c \in [0 .. n -> Nat] /\ c[0] = 0 /\ c[n] = 0 /\ \A i \in 1 .. n : c[i] = c[i - 1] + 0
  BY SMT
<1>2. \A i \in 1 .. n : c[i] = c[i - 1] + Count(parts[i], x)
  BY <1>1
<1> HIDE DEF c
<1>3. Count(FlattenSeq(parts), x) = c[n]
  BY ONLY Zenon, parts \in Seq(Seq(S)), <1>1, <1>2, CountFlatten
<1> QED BY <1>1, <1>3

(* A value that every part has once is as often in the whole as there are  *)
(* parts.                                                                  *)
LEMMA CountInEach ==
  ASSUME NEW S, NEW parts \in Seq(Seq(S)), NEW x,
         \A i \in 1 .. Len(parts) : Count(parts[i], x) = 1
  PROVE  Count(FlattenSeq(parts), x) = Len(parts)
<1> DEFINE n == Len(parts)
           c == [i \in 0 .. n |-> i]
<1>1. c \in [0 .. n -> Nat] /\ c[0] = 0 /\ c[n] = n /\ \A i \in 1 .. n : c[i] = c[i - 1] + 1
  BY SMT
<1>2. \A i \in 1 .. n : c[i] = c[i - 1] + Count(parts[i], x)
  BY <1>1
<1> HIDE DEF c
<1>3. Count(FlattenSeq(parts), x) = c[n]
  BY <1>1, <1>2, CountFlatten
<1> QED BY <1>1, <1>3

-----------------------------------------------------------------------------
(* The outbounds of a tag, and of a rule, are sequences of their names.    *)
NamesOf(os) == {os[i].name : i \in DOMAIN os}
Distinct(os) == \A i, j \in DOMAIN os : os[i].name = os[j].name => i = j

(* s has every enabled outbound of the tag w times, and no other.          *)
Gives(s, os, tag, w) ==
  Distinct(os) => \A j \in DOMAIN os :
    Count(s, os[j].name) = IF os[j].enabled /\ os[j].tag = tag THEN w ELSE 0

(* What outbound i adds to those of a tag.                                 *)
Adds(os, tag) ==
  [i \in DOMAIN os |-> IF os[i].enabled /\ os[i].tag = tag THEN <<os[i].name>> ELSE << >>]

(* A function on 1 .. n is a sequence.                                     *)
LEMMA FcnIsSeq ==
  ASSUME NEW T, NEW n \in Nat, NEW s \in [1 .. n -> T]
  PROVE  s \in Seq(T) /\ Len(s) = n
BY SMT

(* One turn over all the outbounds adds those of the tag.                  *)
LEMMA AddsOK ==
  ASSUME NEW os, IsSeq(os), NEW tag
  PROVE  /\ Adds(os, tag) \in Seq(Seq(NamesOf(os)))
         /\ Len(Adds(os, tag)) = Len(os) /\ DOMAIN os = 1 .. Len(os) /\ Len(os) \in Nat
<1>1. DOMAIN os = 1 .. Len(os) /\ Len(os) \in Nat
  BY SeqOK DEF IsSeq
<1>2. ASSUME NEW i \in DOMAIN os PROVE Adds(os, tag)[i] \in Seq(NamesOf(os))
  <2>1. os[i].name \in NamesOf(os)
    BY DEF NamesOf
  <2>2. \A y \in NamesOf(os) : <<y>> \in Seq(NamesOf(os))
    BY SMT
  <2>3. << >> \in Seq(NamesOf(os))
    BY SMT
  <2> QED BY <2>1, <2>2, <2>3 DEF Adds
<1>3. Adds(os, tag) \in [1 .. Len(os) -> Seq(NamesOf(os))]
  BY <1>1, <1>2 DEF Adds
<1> QED BY <1>1, <1>3, FcnIsSeq

(* The outbounds of a tag: each enabled one that has it once, no other.    *)
LEMMA ByTagOK ==
  ASSUME NEW os, IsSeq(os), NEW tag
  PROVE  /\ outboundByTag(os, tag) \in Seq(NamesOf(os))
         /\ Gives(outboundByTag(os, tag), os, tag, 1)
<1> DEFINE parts == Adds(os, tag)
           S == NamesOf(os)
<1>1. parts \in Seq(Seq(S)) /\ Len(parts) = Len(os) /\ DOMAIN os = 1 .. Len(os)
  BY AddsOK
<1>2. outboundByTag(os, tag) = FlattenSeq(parts)
  BY DEF outboundByTag, Adds
<1>3. outboundByTag(os, tag) \in Seq(S)
  BY <1>1, <1>2, FlattenType
<1>4. ASSUME Distinct(os), NEW j \in DOMAIN os
      PROVE  Count(outboundByTag(os, tag), os[j].name)
               = IF os[j].enabled /\ os[j].tag = tag THEN 1 ELSE 0
  <2> DEFINE x == os[j].name
  <2>1. ASSUME NEW i \in 1 .. Len(parts), i # j PROVE Count(parts[i], x) = 0
    <3>1. i \in DOMAIN os /\ os[i].name # x
      BY <1>1, <1>4, <2>1 DEF Distinct
    <3>2. parts[i] = << >> \/ parts[i] = <<os[i].name>>
      BY <3>1 DEF Adds
    <3>3. Count(<< >>, x) = 0 /\ Count(<<os[i].name>>, x) = IF x = os[i].name THEN 1 ELSE 0
      BY CountSmall
    <3> HIDE DEF parts, x
    <3> QED BY <3>1, <3>2, <3>3
  <2>2. parts[j] = IF os[j].enabled /\ os[j].tag = tag THEN <<x>> ELSE << >>
    BY DEF Adds
  <2>3. Count(parts[j], x) = IF os[j].enabled /\ os[j].tag = tag THEN 1 ELSE 0
    BY <2>2, CountSmall
  <2> HIDE DEF parts, x, S
  <2>4. j \in 1 .. Len(parts)
    BY <1>1
  <2>5. Count(FlattenSeq(parts), x) = Count(parts[j], x)
    BY <1>1, <2>1, <2>4, CountInOne
  <2> QED BY <1>2, <2>3, <2>5 DEF x
<1> QED BY <1>3, <1>4 DEF Gives

(* The rule's outbounds, as often as its weights say.                      *)
TargetsOK(rule) ==
  /\ IsSeq(rule.to)
  /\ rule.strategy = "weighted_round_robin" =>
       \A i \in DOMAIN rule.to : rule.weights[rule.to[i]] \in Nat \ {0}

Repeats(os, tag, w) == [k \in 1 .. w |-> outboundByTag(os, tag)]

(* A weight repeats the outbounds of a tag that often.                     *)
LEMMA RepeatsOK ==
  ASSUME NEW os, IsSeq(os), NEW tag, NEW w \in Nat
  PROVE  /\ FlattenSeq(Repeats(os, tag, w)) \in Seq(NamesOf(os))
         /\ Gives(FlattenSeq(Repeats(os, tag, w)), os, tag, w)
<1> DEFINE parts == Repeats(os, tag, w)
           S == NamesOf(os)
           b == outboundByTag(os, tag)
<1>1. b \in Seq(S)
  BY ByTagOK
<1>2. parts \in [1 .. w -> Seq(S)] /\ \A k \in 1 .. w : parts[k] = b
  BY <1>1 DEF Repeats
<1> HIDE DEF parts, S, b
<1>3. parts \in Seq(Seq(S)) /\ Len(parts) = w
  BY <1>2, FcnIsSeq
<1>4. FlattenSeq(parts) \in Seq(S)
  BY <1>3, FlattenType
<1>5. ASSUME Distinct(os), NEW j \in DOMAIN os
      PROVE  Count(FlattenSeq(parts), os[j].name) = IF os[j].enabled /\ os[j].tag = tag THEN w ELSE 0
  <2> DEFINE x == os[j].name
  <2>1. Count(b, x) = IF os[j].enabled /\ os[j].tag = tag THEN 1 ELSE 0
    BY <1>5, ByTagOK DEF b, Gives
  <2> HIDE DEF x
  <2>2. CASE os[j].enabled /\ os[j].tag = tag
    <3>1. \A k \in 1 .. Len(parts) : Count(parts[k], x) = 1
      BY <1>2, <1>3, <2>1, <2>2
    <3>2. Count(FlattenSeq(parts), x) = Len(parts)
      BY <1>3, <3>1, CountInEach
    <3> QED BY <1>3, <2>2, <3>2 DEF x
  <2>3. CASE ~(os[j].enabled /\ os[j].tag = tag)
    <3>1. \A k \in 1 .. Len(parts) : Count(parts[k], x) = 0
      BY <1>2, <1>3, <2>1, <2>3
    <3>2. Count(FlattenSeq(parts), x) = 0
      BY <1>3, <3>1, CountInNone
    <3> QED BY <2>3, <3>2 DEF x
  <2> QED BY <2>2, <2>3
<1> QED BY <1>4, <1>5 DEF parts, S, Gives

(* What each tag of a rule contributes to its cycle.                       *)
Contributes(os, rule) ==
  IF rule.strategy = "weighted_round_robin"
  THEN [i \in DOMAIN rule.to |-> FlattenSeq(Repeats(os, rule.to[i], rule.weights[rule.to[i]]))]
  ELSE [i \in DOMAIN rule.to |-> outboundByTag(os, rule.to[i])]

(* The cycle of a rule: an enabled outbound of one of its tags, which it   *)
(* names once, is there as often as its share.                             *)
LEMMA CycleOK ==
  ASSUME NEW os, IsSeq(os), NEW rule, TargetsOK(rule)
  PROVE  /\ Cycle(os, rule) \in Seq(NamesOf(os))
         /\ (Distinct(os) /\ \A i, j \in DOMAIN rule.to : rule.to[i] = rule.to[j] => i = j) =>
              \A j \in DOMAIN os : (os[j].enabled /\ os[j].tag \in ToSet(rule.to)) =>
                Count(Cycle(os, rule), os[j].name) = Share(rule, os[j])
<1> DEFINE parts == Contributes(os, rule)
           S == NamesOf(os)
           n == Len(rule.to)
           weight(i) == IF rule.strategy = "weighted_round_robin" THEN rule.weights[rule.to[i]] ELSE 1
<1>1. DOMAIN rule.to = 1 .. n /\ n \in Nat
  BY SeqOK DEF IsSeq, TargetsOK
<1>2. Cycle(os, rule) = FlattenSeq(parts)
  BY DEF Cycle, Contributes, expandWeightedResolved, resolvedSet, Repeats
<1>3. ASSUME NEW i \in DOMAIN rule.to
      PROVE  parts[i] \in Seq(S) /\ Gives(parts[i], os, rule.to[i], weight(i))
  <2>1. CASE rule.strategy = "weighted_round_robin"
    <3>1. rule.weights[rule.to[i]] \in Nat
      BY <1>3, <2>1 DEF TargetsOK
    <3>2. parts[i] = FlattenSeq(Repeats(os, rule.to[i], rule.weights[rule.to[i]]))
      BY <2>1 DEF Contributes
    <3> DEFINE w == rule.weights[rule.to[i]]
               tag == rule.to[i]
    <3> HIDE DEF w, tag, parts
    <3>3. w \in Nat /\ parts[i] = FlattenSeq(Repeats(os, tag, w))
      BY <3>1, <3>2 DEF w, tag
    <3>4. parts[i] \in Seq(S)
      BY <3>3, RepeatsOK
    <3>5. Gives(parts[i], os, tag, w)
      BY <3>3, RepeatsOK
    <3> QED BY <2>1, <3>4, <3>5 DEF w, tag
  <2>2. CASE rule.strategy # "weighted_round_robin"
    <3>1. parts[i] = outboundByTag(os, rule.to[i])
      BY <2>2 DEF Contributes
    <3> DEFINE tag == rule.to[i]
    <3> HIDE DEF tag, parts
    <3>2. parts[i] = outboundByTag(os, tag)
      BY <3>1 DEF tag
    <3>3. parts[i] \in Seq(S)
      BY <3>2, ByTagOK
    <3>4. Gives(parts[i], os, tag, 1)
      BY <3>2, ByTagOK
    <3> QED BY <2>2, <3>3, <3>4 DEF tag
  <2> QED BY <2>1, <2>2
<1>4. parts = [i \in 1 .. n |-> parts[i]]
  BY <1>1 DEF Contributes
<1> HIDE DEF parts, S
<1>5. parts \in [1 .. n -> Seq(S)]
  BY <1>1, <1>3, <1>4
<1>6. parts \in Seq(Seq(S)) /\ Len(parts) = n
  BY <1>1, <1>5, FcnIsSeq
<1>7. Cycle(os, rule) \in Seq(S)
  BY <1>2, <1>6, FlattenType
<1>8. ASSUME Distinct(os), \A i, j \in DOMAIN rule.to : rule.to[i] = rule.to[j] => i = j,
             NEW j \in DOMAIN os, os[j].enabled, os[j].tag \in ToSet(rule.to)
      PROVE  Count(Cycle(os, rule), os[j].name) = Share(rule, os[j])
  <2> DEFINE x == os[j].name
  <2>1. PICK k \in DOMAIN rule.to : os[j].tag = rule.to[k]
    BY <1>8 DEF ToSet
  <2>2. ASSUME NEW i \in 1 .. Len(parts), i # k PROVE Count(parts[i], x) = 0
    <3>1. i \in DOMAIN rule.to /\ os[j].tag # rule.to[i]
      BY <1>1, <1>6, <1>8, <2>1, <2>2
    <3> QED BY <1>3, <1>8, <3>1 DEF Gives
  <2>3. Count(parts[k], x) = weight(k)
    BY <1>3, <1>8, <2>1 DEF Gives
  <2>4. weight(k) = Share(rule, os[j])
    BY <2>1 DEF Share
  <2>5. k \in 1 .. Len(parts)
    BY <1>1, <1>6, <2>1
  <2> HIDE DEF x, weight
  <2>6. Count(FlattenSeq(parts), x) = Count(parts[k], x)
    BY <1>6, <2>2, <2>5, CountInOne
  <2> QED BY <1>2, <2>3, <2>4, <2>6 DEF x
<1> QED BY <1>7, <1>8 DEF S

-----------------------------------------------------------------------------
(* Rotation *)

(* The first of a sequence once the repeats are removed is its first.      *)
DedupeStep(o, v) == IF v \in ToSet(o) THEN o ELSE Append(o, v)

Dedupes(f, values) ==
  /\ f[0] = << >>
  /\ \A i \in 1 .. Len(values) : f[i] = DedupeStep(f[i - 1], values[i])
  /\ f[Len(values)] = dedupePreserveOrder(values)

(* dedupePreserveOrder takes the values one by one.                        *)
LEMMA DedupeOK ==
  ASSUME NEW S, NEW values \in Seq(S)
  PROVE  \E f : Dedupes(f, values)
<1> DEFINE n == Len(values)
           Next1(g, i) == IF i = 0 THEN << >> ELSE DedupeStep(g[i - 1], values[i])
           P(m) == \E g : g = [i \in 0 .. m |-> Next1(g, i)]
           bad == {m \in 0 .. n : ~P(m)}
<1>0. n \in Nat /\ \A m \in 0 .. n : m \in Nat
  BY SMT
<1>1. P(0)
  <2> DEFINE g == [i \in 0 .. 0 |-> << >>]
  <2>1. g = [i \in 0 .. 0 |-> Next1(g, i)]
    BY SMT
  <2> HIDE DEF g
  <2> QED BY <2>1
<1>2. ASSUME NEW m \in 1 .. n, P(m - 1) PROVE P(m)
  <2>0. PICK g : g = [i \in 0 .. m - 1 |-> Next1(g, i)]
    BY <1>2
  <2> DEFINE x == Next1(g, m)
             h == [i \in 0 .. m |-> IF i = m THEN x ELSE g[i]]
  <2>1. m \in Nat \ {0}
    BY SMT, <1>0
  <2>2. ASSUME NEW i \in 0 .. m PROVE h[i] = Next1(h, i)
    <3>1. CASE i = m
      <4>1. h[i] = x /\ h[i - 1] = g[m - 1] /\ i # 0
        <5> HIDE DEF x
        <5> QED BY SMT, <2>1, <3>1
      <4> QED BY <3>1, <4>1
    <3>2. CASE i # m
      <4>1. h[i] = g[i] /\ i \in 0 .. m - 1 /\ (i # 0 => h[i - 1] = g[i - 1])
        <5> HIDE DEF x
        <5> QED BY SMT, <2>1, <3>2
      <4>2. g[i] = Next1(g, i)
        BY <2>0, <4>1
      <4> QED BY <4>1, <4>2
    <3> QED BY <3>1, <3>2
  <2>3. h = [i \in 0 .. m |-> h[i]]
    OBVIOUS
  <2> HIDE DEF h
  <2>4. h = [i \in 0 .. m |-> Next1(h, i)]
    BY <2>2, <2>3
  <2> QED BY <2>4
<1> HIDE DEF P
<1>3. bad = {}
  <2> SUFFICES ASSUME bad # {} PROVE FALSE
    OBVIOUS
  <2>1. bad \in SUBSET Nat
    BY <1>0
  <2>2. PICK m \in bad : \A y \in bad : m <= y
    BY <2>1, LeastNumber
  <2>3. m # 0
    BY <1>1, <2>2
  <2>4. m \in 1 .. n /\ m - 1 \in 0 .. n /\ ~(m <= m - 1)
    BY SMT, <1>0, <2>2, <2>3
  <2>5. P(m - 1)
    BY <2>2, <2>4
  <2> QED BY <1>2, <2>2, <2>4, <2>5
<1>4. n \in 0 .. n /\ 0 \in 0 .. n /\ \A i \in 1 .. n : i \in 0 .. n /\ i # 0
  BY SMT, <1>0
<1>5. P(n)
  BY <1>3, <1>4
<1> DEFINE g == CHOOSE g : g = [i \in 0 .. n |-> Next1(g, i)]
<1>6. g = [i \in 0 .. n |-> Next1(g, i)]
  BY <1>5 DEF P
<1>7. dedupePreserveOrder(values) = g[n]
  BY DEF dedupePreserveOrder, DedupeStep
<1> HIDE DEF g
<1>8. \A i \in 0 .. n : g[i] = Next1(g, i)
  BY <1>6
<1> QED BY <1>4, <1>7, <1>8 DEF Dedupes

(* dedupePreserveOrder keeps the first value first.                        *)
LEMMA DedupeHead ==
  ASSUME NEW S, NEW values \in Seq(S), Len(values) # 0
  PROVE  Head(dedupePreserveOrder(values)) = values[1]
<1> DEFINE n == Len(values)
<1>0. n \in Nat /\ (\A m \in 1 .. n : m \in Nat) /\ n \in 1 .. n /\ 1 \in 1 .. n /\ 1 - 1 = 0
  BY SMT
<1>1. PICK f : Dedupes(f, values)
  BY DedupeOK
<1>2. f[0] = << >> /\ (\A i \in 1 .. n : f[i] = DedupeStep(f[i - 1], values[i]))
  BY <1>1 DEF Dedupes
<1> DEFINE good(o) == o \in Seq(S) /\ o # << >> /\ Head(o) = values[1]
           bad == {m \in 1 .. n : ~good(f[m])}
<1>3. \A y \in S : <<y>> \in Seq(S) /\ <<y>> # << >> /\ Head(<<y>>) = y /\ Append(<< >>, y) = <<y>>
  BY SMT
<1>4. \A y \in S : \A o \in Seq(S) :
        o # << >> => Append(o, y) \in Seq(S) /\ Append(o, y) # << >> /\ Head(Append(o, y)) = Head(o)
  BY SMT
<1>5. \A i \in 1 .. n : values[i] \in S
  BY SMT
<1>6. good(f[1])
  <2>1. f[1] = DedupeStep(<< >>, values[1])
    BY <1>0, <1>2
  <2>2. ToSet(<< >>) = {}
    BY SMT DEF ToSet
  <2>3. f[1] = <<values[1]>>
    BY <1>0, <1>3, <1>5, <2>1, <2>2 DEF DedupeStep
  <2> QED BY <1>0, <1>3, <1>5, <2>3
<1>7. ASSUME NEW o, good(o), NEW y \in S PROVE good(DedupeStep(o, y))
  BY <1>4, <1>7 DEF DedupeStep
<1> HIDE DEF good
<1>8. bad = {}
  <2> SUFFICES ASSUME bad # {} PROVE FALSE
    OBVIOUS
  <2>1. bad \in SUBSET Nat
    BY <1>0
  <2>2. PICK m \in bad : \A y \in bad : m <= y
    BY <2>1, LeastNumber
  <2>3. m # 1
    BY <1>6, <2>2
  <2>4. m \in 1 .. n /\ m - 1 \in 1 .. n /\ ~(m <= m - 1)
    BY SMT, <1>0, <2>2, <2>3
  <2>5. good(f[m - 1]) /\ f[m] = DedupeStep(f[m - 1], values[m])
    BY <1>2, <2>2, <2>4
  <2> QED BY <1>5, <1>7, <2>2, <2>4, <2>5
<1>9. good(f[n])
  BY <1>0, <1>8
<1> QED BY <1>1, <1>9 DEF good, Dedupes

(* The position on a cycle of n that is q after the start, or -q before.   *)
Place(q, n) == (IF q < 0 THEN q + n ELSE q) + 1

(* seen has what the last turns of a cycle came to, the next being at.     *)
InTurn(cycle, at, seen) ==
  /\ at \in Nat /\ (at < Len(cycle) \/ at = 0)
  /\ Len(seen) \in Nat /\ DOMAIN seen = 1 .. Len(seen) /\ Len(seen) <= Len(cycle)
  /\ \A k \in 1 .. Len(seen) : seen[k] = cycle[Place(at - Len(seen) + k - 1, Len(cycle))]

(* The counter's index goes up by one and around.                          *)
LEMMA ModOK ==
  ASSUME NEW n \in Nat \ {0}, NEW a \in 0 .. n - 1
  PROVE  a % n = a /\ (a + 1) % n = IF a + 1 = n THEN 0 ELSE a + 1
<1>1. a % n = a
  BY SMT
<1>2. CASE a + 1 = n
  BY SMT, <1>2
<1>3. CASE a + 1 # n
  BY SMT, <1>3
<1> QED BY <1>1, <1>2, <1>3

(* A turn more.                                                            *)
LEMMA TurnOK ==
  ASSUME NEW S, NEW cycle \in Seq(S), Len(cycle) # 0, NEW at, NEW seen \in Seq(S), InTurn(cycle, at, seen)
  PROVE  /\ at \in 0 .. Len(cycle) - 1
         /\ Remember(seen, cycle[at + 1], Len(cycle)) \in Seq(S)
         /\ InTurn(cycle, (at + 1) % Len(cycle), Remember(seen, cycle[at + 1], Len(cycle)))
<1> DEFINE n == Len(cycle)
           m == Len(seen)
           next == (at + 1) % n
           more == Remember(seen, cycle[at + 1], n)
<1>1. n \in Nat \ {0} /\ at \in 0 .. n - 1 /\ m \in Nat /\ m <= n
  BY SMT DEF InTurn
<1>2. next = IF at + 1 = n THEN 0 ELSE at + 1
  BY <1>1, ModOK
<1> HIDE DEF next
<1>3. next \in 0 .. n - 1
  BY SMT, <1>1, <1>2
<1>4. cycle[at + 1] \in S
  BY SMT, <1>1
<1> DEFINE first == cycle[at + 1]
<1> HIDE DEF first
<1>5. CASE m < n
  <2>1. more = Append(seen, first)
    BY <1>5 DEF Remember, first
  <2>2. more \in Seq(S) /\ Len(more) = m + 1 /\ DOMAIN more = 1 .. m + 1
    BY SMT, <1>4, <2>1 DEF first
  <2>3. (\A k \in 1 .. m : more[k] = seen[k]) /\ more[m + 1] = first
    BY SMT, <1>4, <2>1 DEF first
  <2> HIDE DEF more
  <2>4. ASSUME NEW k \in 1 .. m + 1 PROVE more[k] = cycle[Place(next - (m + 1) + k - 1, n)]
    <3>1. CASE k = m + 1
      <4>1. Place(next - (m + 1) + k - 1, n) = at + 1
        BY SMT, <1>1, <1>2, <3>1 DEF Place
      <4> QED BY <2>3, <3>1, <4>1 DEF first
    <3>2. CASE k # m + 1
      <4>1. k \in 1 .. m /\ Place(next - (m + 1) + k - 1, n) = Place(at - m + k - 1, n)
        BY SMT, <1>1, <1>2, <1>5, <3>2 DEF Place
      <4> QED BY <2>3, <4>1 DEF InTurn
    <3> QED BY <3>1, <3>2
  <2>5. m + 1 \in Nat /\ m + 1 <= n /\ next \in Nat /\ next < n
    BY SMT, <1>1, <1>3, <1>5
  <2>6. InTurn(cycle, next, more)
    BY <2>2, <2>4, <2>5 DEF InTurn
  <2> QED BY <1>1, <2>2, <2>6 DEF next, more
<1>6. CASE ~(m < n)
  <2>0. m = n
    BY SMT, <1>1, <1>6
  <2>1. more = Append(Tail(seen), first)
    BY <1>6 DEF Remember, first
  <2>2. more \in Seq(S) /\ Len(more) = n /\ DOMAIN more = 1 .. n
    BY SMT, <1>1, <1>4, <2>0, <2>1 DEF first
  <2>3. (\A k \in 1 .. n - 1 : more[k] = seen[k + 1]) /\ more[n] = first
    BY SMT, <1>1, <1>4, <2>0, <2>1 DEF first
  <2> HIDE DEF more
  <2>4. ASSUME NEW k \in 1 .. n PROVE more[k] = cycle[Place(next - n + k - 1, n)]
    <3>1. CASE k = n
      <4>1. Place(next - n + k - 1, n) = at + 1
        BY SMT, <1>1, <1>2, <3>1 DEF Place
      <4> QED BY <2>3, <3>1, <4>1 DEF first
    <3>2. CASE k # n
      <4>1. k \in 1 .. n - 1 /\ k + 1 \in 1 .. m /\ Place(next - n + k - 1, n) = Place(at - m + (k + 1) - 1, n)
        BY SMT, <1>1, <1>2, <2>0, <3>2 DEF Place
      <4> QED BY <2>3, <4>1 DEF InTurn
    <3> QED BY <3>1, <3>2
  <2>5. n \in Nat /\ n <= n /\ next \in Nat /\ next < n
    BY SMT, <1>1, <1>3
  <2>6. InTurn(cycle, next, more)
    BY <2>2, <2>4, <2>5 DEF InTurn
  <2> QED BY <1>1, <2>2, <2>6 DEF next, more
<1> QED BY <1>5, <1>6

(* After as many turns as the cycle is long, all of it has been seen.      *)
LEMMA FullTurn ==
  ASSUME NEW S, NEW cycle \in Seq(S), NEW at, NEW seen, InTurn(cycle, at, seen),
         Len(seen) = Len(cycle), NEW x
  PROVE  Count(seen, x) = Count(cycle, x)
<1> DEFINE n == Len(cycle)
           place(k) == Place(at - n + k - 1, n)
           f == [k \in At(seen, x) |-> place(k)]
<1>1. n \in Nat /\ DOMAIN cycle = 1 .. n /\ DOMAIN seen = 1 .. n
  BY SeqOK DEF InTurn
<1>2. at \in Nat /\ (at < n \/ at = 0) /\ \A k \in 1 .. n : seen[k] = cycle[place(k)]
  BY DEF InTurn
<1>3. \A k \in 1 .. n : place(k) \in 1 .. n
  BY SMT, <1>1, <1>2 DEF Place
<1>4. \A j, k \in 1 .. n : place(j) = place(k) => j = k
  BY SMT, <1>1, <1>2 DEF Place
<1>5. \A p \in 1 .. n : \E k \in 1 .. n : place(k) = p
  <2> SUFFICES ASSUME NEW p \in 1 .. n PROVE \E k \in 1 .. n : place(k) = p
    OBVIOUS
  <2> DEFINE k == IF p <= at THEN p - at + n ELSE p - at
  <2>1. k \in 1 .. n /\ place(k) = p
    BY SMT, <1>1, <1>2 DEF Place
  <2> QED BY <2>1
<1> HIDE DEF place
<1>6. f \in Bijection(At(seen, x), At(cycle, x))
  <2>1. \A k \in At(seen, x) : f[k] \in At(cycle, x)
    BY <1>1, <1>2, <1>3 DEF At
  <2>2. \A j, k \in At(seen, x) : f[j] = f[k] => j = k
    BY <1>1, <1>4 DEF At
  <2>3. \A p \in At(cycle, x) : \E k \in At(seen, x) : f[k] = p
    <3> SUFFICES ASSUME NEW p \in At(cycle, x) PROVE \E k \in At(seen, x) : f[k] = p
      OBVIOUS
    <3>1. p \in 1 .. n /\ cycle[p] = x
      BY <1>1 DEF At
    <3>2. PICK k \in 1 .. n : place(k) = p
      BY <1>5, <3>1
    <3>3. k \in At(seen, x)
      BY <1>1, <1>2, <3>1, <3>2 DEF At
    <3> QED BY <3>2, <3>3
  <2>4. f = [k \in At(seen, x) |-> f[k]]
    OBVIOUS
  <2> HIDE DEF f
  <2> QED BY <2>1, <2>2, <2>3, <2>4 DEF Bijection, Injection, Surjection, IsInjective
<1>7. At(seen, x) \subseteq 1 .. n
  BY <1>1 DEF At
<1>8. IsFiniteSet(1 .. n)
  <2>1. 1 \in Int /\ n \in Int
    BY SMT, <1>1
  <2> QED BY <2>1, FS_Interval
<1>9. IsFiniteSet(At(seen, x))
  BY <1>7, <1>8, FS_Subset
<1> QED BY <1>6, <1>9, FS_Bijection DEF ExistsBijection, Count

(* A rotated cycle starts at its index.                                    *)
LEMMA RotateOK ==
  ASSUME NEW S, NEW values \in Seq(S), Len(values) # 0, NEW index \in 0 .. Len(values) - 1
  PROVE  /\ rotate(values, index) \in Seq(S) /\ Len(rotate(values, index)) = Len(values)
         /\ rotate(values, index)[1] = values[index + 1]
<1> DEFINE n == Len(values)
           r == rotate(values, index)
<1>1. n \in Nat \ {0} /\ DOMAIN values = 1 .. n /\ 1 \in 1 .. n /\ 1 - 1 + index = index
  BY SMT
<1>2. \A i \in 1 .. n : (i - 1 + index) % n \in 0 .. n - 1
  BY SMT, <1>1
<1>3. \A i \in 1 .. n : ((i - 1 + index) % n) + 1 \in 1 .. n
  BY SMT, <1>1, <1>2
<1>4. \A i \in 1 .. n : values[((i - 1 + index) % n) + 1] \in S
  BY <1>3, SeqOK
<1>5. r = [i \in 1 .. n |-> values[((i - 1 + index) % n) + 1]]
  BY <1>1 DEF rotate
<1>6. r \in [1 .. n -> S]
  BY <1>4, <1>5
<1>7. r \in Seq(S) /\ Len(r) = n
  BY <1>1, <1>6, FcnIsSeq
<1>8. index % n = index
  BY <1>1, ModOK
<1>9. r[1] = values[index + 1]
  BY <1>1, <1>5, <1>8
<1> QED BY <1>7, <1>9

(* The first step of a plan.                                               *)
LEMMA StepsOK ==
  ASSUME NEW os, NEW rule, NEW S, Cycle(os, rule) \in Seq(S), Len(Cycle(os, rule)) # 0,
         NEW index \in 0 .. Len(Cycle(os, rule)) - 1
  PROVE  Head(Steps(os, rule, index)) = Cycle(os, rule)[index + 1]
<1> DEFINE cycle == Cycle(os, rule)
           r == rotate(cycle, index)
<1>1. r \in Seq(S) /\ Len(r) = Len(cycle) /\ r[1] = cycle[index + 1]
  BY RotateOK
<1>2. Steps(os, rule, index) = r \/ Steps(os, rule, index) = dedupePreserveOrder(r)
  BY DEF Steps
<1> HIDE DEF r
<1>3. Head(r) = r[1]
  BY SMT, <1>1
<1>4. Head(dedupePreserveOrder(r)) = r[1]
  BY <1>1, DedupeHead
<1> QED BY <1>1, <1>2, <1>3, <1>4

-----------------------------------------------------------------------------
(* The least of some numbers.                                              *)
LEMMA MinOK ==
  ASSUME NEW I \in SUBSET Nat, I # {}
  PROVE  Min(I) \in I
<1>1. PICK x \in I : \A y \in I : x <= y
  BY LeastNumber
<1> QED BY <1>1 DEF Min

(* A rule that matches is one of the rules.                                *)
LEMMA MatchOK ==
  ASSUME NEW rules, IsSeq(rules), NEW tag, NEW model, matchRule(rules, tag, model) # 0
  PROVE  matchRule(rules, tag, model) \in DOMAIN rules
<1> DEFINE I == {i \in 1 .. Len(rules) : tag \in rules[i].from /\ matchesModel(rules[i], model)}
<1>1. DOMAIN rules = 1 .. Len(rules) /\ Len(rules) \in Nat
  BY SeqOK DEF IsSeq
<1>2. matchRule(rules, tag, model) = IF I # {} THEN Min(I) ELSE 0
  BY DEF matchRule, SelectInSeq
<1>3. \A i \in 1 .. Len(rules) : i \in Nat
  BY SMT, <1>1
<1>4. I # {} /\ I \in SUBSET Nat
  BY <1>2, <1>3
<1> QED BY <1>1, <1>2, <1>4, MinOK

-----------------------------------------------------------------------------
(* The rules take their turns.                                             *)
RuleInTurn(i) ==
  LET rule == routerCfg.rules[i]
  IN  rule.strategy # "failover" =>
        /\ firsts[rule.name] \in Seq(NamesOf(routerCfg.outbounds))
        /\ InTurn(Cycle(routerCfg.outbounds, rule), roundRobin[rule.name], firsts[rule.name])

RouterInv ==
  /\ routerCfg \in RouterConfigs
  /\ DOMAIN roundRobin = RuleNames /\ DOMAIN firsts = RuleNames
  /\ ToldApart => \A i \in DOMAIN routerCfg.rules : RuleInTurn(i)

(* What validation says of a rule of the configuration.                    *)
LEMMA RuleOK ==
  ASSUME routerCfg \in RouterConfigs
  PROVE  /\ IsSeq(routerCfg.outbounds) /\ IsSeq(routerCfg.rules)
         /\ \A i \in DOMAIN routerCfg.rules :
              /\ TargetsOK(routerCfg.rules[i])
              /\ Cycle(routerCfg.outbounds, routerCfg.rules[i]) \in Seq(NamesOf(routerCfg.outbounds))
              /\ routerCfg.rules[i].name \in RuleNames
<1>1. Validated(routerCfg)
  BY RouterAssumption
<1>2. IsSeq(routerCfg.outbounds) /\ IsSeq(routerCfg.rules)
  BY <1>1 DEF Validated, IsSeq
<1>3. ASSUME NEW i \in DOMAIN routerCfg.rules
      PROVE  /\ TargetsOK(routerCfg.rules[i])
             /\ Cycle(routerCfg.outbounds, routerCfg.rules[i]) \in Seq(NamesOf(routerCfg.outbounds))
             /\ routerCfg.rules[i].name \in RuleNames
  <2> DEFINE rule == routerCfg.rules[i]
  <2>1. rule \in ToSet(routerCfg.rules)
    BY DEF ToSet
  <2>2. /\ rule.to \in Seq(ToSet(rule.to))
        /\ rule.strategy = "weighted_round_robin" =>
             \A tag \in ToSet(rule.to) : rule.weights[tag] \in Nat \ {0}
    BY <1>1, <2>1 DEF Validated
  <2>3. \A k \in DOMAIN rule.to : rule.to[k] \in ToSet(rule.to)
    BY DEF ToSet
  <2> HIDE DEF rule
  <2>4. TargetsOK(rule)
    BY <2>2, <2>3 DEF TargetsOK, IsSeq
  <2>5. Cycle(routerCfg.outbounds, rule) \in Seq(NamesOf(routerCfg.outbounds))
    BY <1>2, <2>4, CycleOK
  <2> QED BY <2>4, <2>5 DEF rule, RuleNames
<1> QED BY <1>2, <1>3

(* The invariant at the start.                                             *)
LEMMA RouterInitOK ==
  ASSUME RoutingInit(RouterConfigs)
  PROVE  RouterInv
<1>1. /\ routerCfg \in RouterConfigs
      /\ roundRobin = [n \in RuleNames |-> 0] /\ firsts = [n \in RuleNames |-> << >>]
  BY DEF RoutingInit
<1>2. ASSUME NEW i \in DOMAIN routerCfg.rules PROVE RuleInTurn(i)
  <2> DEFINE rule == routerCfg.rules[i]
             cycle == Cycle(routerCfg.outbounds, rule)
             S == NamesOf(routerCfg.outbounds)
  <2>1. cycle \in Seq(S) /\ rule.name \in RuleNames
    BY <1>1, RuleOK
  <2> HIDE DEF cycle, S
  <2>2. roundRobin[rule.name] = 0 /\ firsts[rule.name] = << >>
    BY <1>1, <2>1
  <2>3. Len(cycle) \in Nat
    BY <2>1, SeqOK
  <2>4. /\ << >> \in Seq(S) /\ Len(<< >>) = 0 /\ 1 .. 0 = {} /\ DOMAIN << >> = {}
        /\ 0 \in Nat /\ 0 <= Len(cycle)
    BY SMT, <2>3
  <2>5. InTurn(cycle, 0, << >>)
    BY <2>4 DEF InTurn
  <2> QED BY <2>2, <2>4, <2>5 DEF RuleInTurn, cycle, S
<1> QED BY <1>1, <1>2 DEF RouterInv

(* A plan advances its rule's counter by one and no other.                 *)
LEMMA PlanStepOK ==
  ASSUME RouterInv, NEW tag, NEW model, Plan(tag, model)
  PROVE  RouterInv'
<1> DEFINE os == routerCfg.outbounds
           k == matchRule(routerCfg.rules, tag, model)
           rule == routerCfg.rules[k]
           cycle == Cycle(os, rule)
           size == Len(cycle)
           index == IF rule.strategy = "failover" THEN 0 ELSE roundRobin[rule.name] % size
           first == Head(Steps(os, rule, index))
           S == NamesOf(os)
<1>1. /\ k # 0 /\ routerCfg' = routerCfg
      /\ firsts' = [firsts EXCEPT ![rule.name] = Remember(@, first, size)]
      /\ IF rule.strategy = "failover" THEN roundRobin' = roundRobin
         ELSE nextRoundRobinIndex(rule.name, size)
  BY DEF Plan
<1>2. /\ routerCfg \in RouterConfigs /\ DOMAIN roundRobin = RuleNames /\ DOMAIN firsts = RuleNames
      /\ IsSeq(routerCfg.rules)
  BY RuleOK DEF RouterInv
<1>3. k \in DOMAIN routerCfg.rules
  BY <1>1, <1>2, MatchOK
<1> HIDE DEF k
<1>4. cycle \in Seq(S) /\ rule.name \in RuleNames
  BY <1>2, <1>3, RuleOK
<1>5. RuleNames' = RuleNames /\ (ToldApart' <=> ToldApart)
  BY <1>1 DEF RuleNames, ToldApart
<1> HIDE DEF cycle, first, index
<1>6. DOMAIN firsts' = RuleNames /\ DOMAIN roundRobin' = RuleNames
  BY <1>1, <1>2 DEF nextRoundRobinIndex
<1>7. ASSUME ToldApart, NEW i \in DOMAIN routerCfg.rules, i # k PROVE RuleInTurn(i)'
  <2> DEFINE other == routerCfg.rules[i]
  <2>1. other.name # rule.name
    BY <1>3, <1>7 DEF ToldApart
  <2>2. firsts'[other.name] = firsts[other.name] /\ roundRobin'[other.name] = roundRobin[other.name]
    <3>1. other.name \in RuleNames
      BY DEF RuleNames
    <3> HIDE DEF other, rule
    <3> QED BY <1>1, <1>2, <2>1, <3>1 DEF nextRoundRobinIndex
  <2>3. RuleInTurn(i)
    BY <1>7 DEF RouterInv
  <2> QED BY <1>1, <2>2, <2>3 DEF RuleInTurn
<1>8. ASSUME ToldApart, NEW i \in DOMAIN routerCfg.rules, i = k PROVE RuleInTurn(i)'
  <2>1. CASE rule.strategy = "failover"
    BY <1>1, <1>8, <2>1 DEF RuleInTurn
  <2>2. CASE rule.strategy # "failover"
    <3> DEFINE at == roundRobin[rule.name]
               seen == firsts[rule.name]
    <3>1. seen \in Seq(S) /\ InTurn(cycle, at, seen)
      BY <1>3, <1>8, <2>2 DEF RouterInv, RuleInTurn, cycle
    <3>2. size > 0 /\ roundRobin'[rule.name] = (at + 1) % size
      BY <1>1, <1>2, <1>4, <2>2 DEF nextRoundRobinIndex
    <3>3. size # 0
      BY SMT, <3>2
    <3>4. /\ at \in 0 .. size - 1 /\ Remember(seen, cycle[at + 1], size) \in Seq(S)
          /\ InTurn(cycle, (at + 1) % size, Remember(seen, cycle[at + 1], size))
      BY <1>4, <3>1, <3>3, TurnOK
    <3>5. size \in Nat \ {0}
      BY <1>4, <3>3, SeqOK
    <3>6. index = at
      BY <2>2, <3>4, <3>5, ModOK DEF index
    <3>7. first = cycle[at + 1]
      BY <1>4, <3>3, <3>4, <3>6, StepsOK DEF first, cycle
    <3>8. firsts'[rule.name] = Remember(seen, first, size)
      BY <1>1, <1>2, <1>4
    <3> QED BY <1>1, <1>8, <3>2, <3>4, <3>7, <3>8 DEF RuleInTurn, cycle
  <2> QED BY <2>1, <2>2
<1>9. ToldApart' => \A i \in DOMAIN routerCfg.rules' : RuleInTurn(i)'
  BY <1>1, <1>5, <1>7, <1>8
<1> QED BY <1>1, <1>2, <1>5, <1>6, <1>9 DEF RouterInv

(* Every step keeps the invariant.                                         *)
LEMMA RouterStepOK ==
  ASSUME RouterInv, [RoutingNext]_routerVars
  PROVE  RouterInv'
<1>1. ASSUME NEW tag, NEW model, Plan(tag, model) PROVE RouterInv'
  BY <1>1, PlanStepOK
<1>2. CASE UNCHANGED <<routerCfg, roundRobin, firsts>>
  BY <1>2 DEF RouterInv, RuleInTurn, RuleNames, ToldApart
<1> QED BY <1>1, <1>2 DEF RoutingNext, PlanDryRun, PlanFails, routerVars

(* Indices that go around give every outbound its turns.                   *)
LEMMA TurnsAreFair ==
  ASSUME RouterInv
  PROVE  RoundRobinFair
<1> DEFINE os == routerCfg.outbounds
<1>1. routerCfg \in RouterConfigs /\ IsSeq(os)
  BY RuleOK DEF RouterInv
<1>2. ASSUME ToldApart, NEW i \in DOMAIN routerCfg.rules, routerCfg.rules[i].strategy # "failover",
             Len(firsts[routerCfg.rules[i].name]) = Len(Cycle(os, routerCfg.rules[i])),
             NEW o \in ToSet(os), o.enabled, o.tag \in ToSet(routerCfg.rules[i].to)
      PROVE  Count(firsts[routerCfg.rules[i].name], o.name) = Share(routerCfg.rules[i], o)
  <2> DEFINE rule == routerCfg.rules[i]
             cycle == Cycle(os, rule)
             seen == firsts[rule.name]
  <2>1. cycle \in Seq(NamesOf(os)) /\ TargetsOK(rule)
    BY <1>1, RuleOK
  <2>2. InTurn(cycle, roundRobin[rule.name], seen)
    BY <1>2 DEF RouterInv, RuleInTurn
  <2>3. Count(seen, o.name) = Count(cycle, o.name)
    <3> HIDE DEF cycle, seen
    <3> QED BY <1>2, <2>1, <2>2, FullTurn DEF cycle, seen
  <2>4. Distinct(os) /\ \A k, j \in DOMAIN rule.to : rule.to[k] = rule.to[j] => k = j
    BY <1>2 DEF ToldApart, Distinct, ToSet
  <2>5. PICK j \in DOMAIN os : o = os[j]
    BY <1>2 DEF ToSet
  <2> HIDE DEF rule, os
  <2>6. o.tag \in ToSet(rule.to)
    BY <1>2 DEF rule
  <2>7. Count(cycle, o.name) = Share(rule, o)
    BY <1>1, <1>2, <2>1, <2>4, <2>5, <2>6, CycleOK DEF cycle
  <2> QED BY <2>3, <2>7 DEF rule, os
<1> QED BY <1>2 DEF RoundRobinFair, Count, At

(* Whatever the configuration and the requests, in a run of plans as long  *)
(* as a rule's cycle each of its outbounds comes first as often as its     *)
(* weight says (router.go nextRoundRobinIndex, expandWeightedResolved).    *)
THEOREM RoundRobinFairCorrect == RoutingSpec => []RoundRobinFair
<1>1. RoutingInit(RouterConfigs) => RouterInv
  BY RouterInitOK
<1>2. RouterInv /\ [RoutingNext]_routerVars => RouterInv'
  BY RouterStepOK
<1>3. RouterInv => RoundRobinFair
  BY TurnsAreFair
<1> QED BY <1>1, <1>2, <1>3, PTL DEF RoutingSpec

-----------------------------------------------------------------------------
(* A set of numbers that has 0 and, with a number, the next, has them all. *)
LEMMA Induct ==
  ASSUME NEW n \in Nat, NEW G, 0 \in G, \A i \in 1 .. n : i - 1 \in G => i \in G
  PROVE  \A i \in 0 .. n : i \in G
<1> DEFINE bad == {m \in 0 .. n : m \notin G}
<1> SUFFICES ASSUME bad # {} PROVE FALSE
  OBVIOUS
<1>1. bad \in SUBSET Nat
  BY SMT
<1>2. PICK m \in bad : \A y \in bad : m <= y
  BY <1>1, LeastNumber
<1>3. m # 0
  BY <1>2
<1>4. m \in 1 .. n /\ m - 1 \in 0 .. n /\ ~(m <= m - 1)
  BY SMT, <1>2, <1>3
<1> QED BY <1>2, <1>4

(* A function can be defined by what it makes of its last value.           *)
Follows(f, n, a, F) == f[0] = a /\ \A i \in 1 .. n : f[i] = F[<<i, f[i - 1]>>]

(* What is defined step by step exists.                                    *)
LEMMA Recursion ==
  ASSUME NEW n \in Nat, NEW T, NEW a \in T, NEW F \in [(1 .. n) \X T -> T]
  PROVE  \E f \in [0 .. n -> T] : Follows(f, n, a, F)
<1> DEFINE Upto(m, f) == f[0] = a /\ \A i \in 1 .. m : f[i] = F[<<i, f[i - 1]>>]
           G == {m \in 0 .. n : \E f \in [0 .. n -> T] : Upto(m, f)}
<1>1. 0 \in G
  <2> DEFINE f == [i \in 0 .. n |-> a]
  <2>1. f \in [0 .. n -> T] /\ f[0] = a /\ 1 .. 0 = {} /\ 0 \in 0 .. n
    BY SMT
  <2> HIDE DEF f
  <2>2. Upto(0, f)
    BY <2>1
  <2> QED BY <2>1, <2>2
<1>2. ASSUME NEW m \in 1 .. n, m - 1 \in G PROVE m \in G
  <2>1. PICK f \in [0 .. n -> T] : Upto(m - 1, f)
    BY <1>2
  <2> DEFINE x == F[<<m, f[m - 1]>>]
             g == [f EXCEPT ![m] = x]
  <2>2. m - 1 \in 0 .. n /\ m \in 0 .. n /\ 0 \in 0 .. n /\ m # 0 /\ m - 1 # m
    BY SMT
  <2>3. x \in T
    BY <2>2
  <2>4. g \in [0 .. n -> T] /\ g[m] = x /\ \A i \in 0 .. n : i # m => g[i] = f[i]
    BY <2>2, <2>3
  <2>5. \A i \in 1 .. m : /\ i \in 0 .. n /\ i - 1 \in 0 .. n /\ i - 1 # m
                          /\ i # m => i \in 1 .. m - 1
    BY SMT
  <2>6. g[0] = a
    BY <2>1, <2>2, <2>4
  <2> HIDE DEF g
  <2>7. ASSUME NEW i \in 1 .. m PROVE g[i] = F[<<i, g[i - 1]>>]
    <3>1. CASE i = m
      BY <2>2, <2>4, <3>1
    <3>2. CASE i # m
      BY <2>1, <2>4, <2>5, <3>2
    <3> QED BY <3>1, <3>2
  <2>8. Upto(m, g)
    BY <2>6, <2>7
  <2> HIDE DEF Upto
  <2> QED BY <2>2, <2>4, <2>8
<1>3. n \in 0 .. n
  BY SMT
<1> HIDE DEF G
<1>4. n \in G
  BY <1>1, <1>2, <1>3, Induct
<1> QED BY <1>4 DEF G, Follows

-----------------------------------------------------------------------------
(* Which values the sequences a plan is built from have.                   *)
LEMMA RangeOK ==
  ASSUME NEW S, NEW s \in Seq(S)
  PROVE  ToSet(s) \subseteq S /\ \A x : x \in ToSet(s) <=> \E i \in 1 .. Len(s) : s[i] = x
<1>1. DOMAIN s = 1 .. Len(s) /\ \A i \in 1 .. Len(s) : s[i] \in S
  BY SeqOK
<1>2. \A x : x \in ToSet(s) <=> \E i \in DOMAIN s : x = s[i]
  BY DEF ToSet
<1>3. \A x : x \in ToSet(s) <=> \E i \in 1 .. Len(s) : s[i] = x
  BY <1>1, <1>2
<1>4. \A x \in ToSet(s) : x \in S
  BY <1>1, <1>3
<1> QED BY <1>3, <1>4

(* The values of a concatenation.                                          *)
LEMMA ConcatRange ==
  ASSUME NEW S, NEW s \in Seq(S), NEW t \in Seq(S)
  PROVE  s \o t \in Seq(S) /\ ToSet(s \o t) = ToSet(s) \cup ToSet(t)
<1>1. /\ s \o t \in Seq(S) /\ Len(s \o t) = Len(s) + Len(t) /\ Len(s) \in Nat /\ Len(t) \in Nat
      /\ \A i \in 1 .. Len(s) : i \in 1 .. Len(s \o t) /\ (s \o t)[i] = s[i]
      /\ \A i \in 1 .. Len(t) : i + Len(s) \in 1 .. Len(s \o t) /\ (s \o t)[i + Len(s)] = t[i]
  BY SMT
<1>2. ASSUME NEW i \in 1 .. Len(s \o t)
      PROVE  (s \o t)[i] \in ToSet(s) \cup ToSet(t)
  <2>1. CASE i \in 1 .. Len(s)
    BY <1>1, <2>1, RangeOK
  <2>2. CASE ~(i \in 1 .. Len(s))
    <3>1. i - Len(s) \in 1 .. Len(t) /\ (i - Len(s)) + Len(s) = i
      BY SMT, <1>1, <2>2
    <3>2. (s \o t)[i] = t[i - Len(s)]
      BY <1>1, <3>1
    <3>3. t[i - Len(s)] \in ToSet(t)
      BY <3>1, RangeOK
    <3> QED BY <3>2, <3>3
  <2> QED BY <2>1, <2>2
<1> DEFINE u == s \o t
<1>0. /\ \A x : x \in ToSet(u) <=> \E i \in 1 .. Len(u) : u[i] = x
      /\ \A x : x \in ToSet(s) <=> \E i \in 1 .. Len(s) : s[i] = x
      /\ \A x : x \in ToSet(t) <=> \E i \in 1 .. Len(t) : t[i] = x
  BY <1>1, RangeOK
<1>3. \A x \in ToSet(u) : x \in ToSet(s) \cup ToSet(t)
  BY <1>0, <1>2
<1>4. \A x \in ToSet(s) : x \in ToSet(u)
  BY <1>0, <1>1
<1>5. \A x \in ToSet(t) : x \in ToSet(u)
  BY <1>0, <1>1
<1> QED BY <1>1, <1>3, <1>4, <1>5

(* The values of the whole are those of the parts.                         *)
LEMMA FlattenRange ==
  ASSUME NEW S, NEW parts \in Seq(Seq(S))
  PROVE  \A x : x \in ToSet(FlattenSeq(parts)) <=> \E i \in 1 .. Len(parts) : x \in ToSet(parts[i])
<1> DEFINE n == Len(parts)
<1>0. n \in Nat /\ n \in 0 .. n /\ \A i \in 1 .. n : parts[i] \in Seq(S)
  BY SMT
<1>1. PICK f : Flattens(f, parts)
  BY FlattenOK
<1>2. f[0] = << >> /\ (\A i \in 1 .. n : f[i] = f[i - 1] \o parts[i]) /\ f[n] = FlattenSeq(parts)
  BY <1>1 DEF Flattens
<1> DEFINE Has(m) == \A x : x \in ToSet(f[m]) <=> \E i \in 1 .. m : x \in ToSet(parts[i])
           G == {m \in 0 .. n : f[m] \in Seq(S) /\ Has(m)}
<1>3. 0 \in G
  <2>1. << >> \in Seq(S) /\ ToSet(<< >>) = {} /\ 1 .. 0 = {} /\ 0 \in 0 .. n
    BY SMT, <1>0 DEF ToSet
  <2>2. Has(0)
    BY <1>2, <2>1
  <2> QED BY <1>2, <2>1, <2>2
<1>4. ASSUME NEW m \in 1 .. n, m - 1 \in G PROVE m \in G
  <2>1. f[m - 1] \in Seq(S) /\ Has(m - 1) /\ parts[m] \in Seq(S)
    BY <1>0, <1>4
  <2>2. f[m] = f[m - 1] \o parts[m]
    BY <1>2
  <2> DEFINE y == f[m - 1]
             z == parts[m]
  <2>3. f[m] \in Seq(S) /\ ToSet(f[m]) = ToSet(y) \cup ToSet(z)
    <3>1. y \in Seq(S) /\ z \in Seq(S) /\ f[m] = y \o z
      BY <2>1, <2>2
    <3> HIDE DEF y, z
    <3>2. y \o z \in Seq(S) /\ ToSet(y \o z) = ToSet(y) \cup ToSet(z)
      BY ONLY SMT, <3>1, ConcatRange
    <3> QED BY <3>1, <3>2
  <2>4. m \in 0 .. n /\ \A i : i \in 1 .. m <=> (i \in 1 .. m - 1 \/ i = m)
    BY SMT, <1>0
  <2>5. Has(m)
    BY <2>1, <2>3, <2>4
  <2> HIDE DEF Has
  <2> QED BY <2>3, <2>4, <2>5
<1> HIDE DEF G
<1>5. n \in G
  BY <1>0, <1>3, <1>4, Induct
<1> QED BY <1>2, <1>5 DEF G

(* The names of the enabled outbounds of some tags.                        *)
Named(os, tags) == {o.name : o \in {x \in ToSet(os) : x.enabled /\ x.tag \in tags}}

(* outboundByTag has the outbounds of the tag.                             *)
LEMMA ByTagRange ==
  ASSUME NEW os, IsSeq(os), NEW tag
  PROVE  ToSet(outboundByTag(os, tag)) = Named(os, {tag})
<1> DEFINE parts == Adds(os, tag)
<1>1. parts \in Seq(Seq(NamesOf(os))) /\ Len(parts) = Len(os) /\ DOMAIN os = 1 .. Len(os)
  BY AddsOK
<1>2. outboundByTag(os, tag) = FlattenSeq(parts)
  BY DEF outboundByTag, Adds
<1>3. ToSet(<< >>) = {} /\ \A y : ToSet(<<y>>) = {y}
  BY SMT DEF ToSet
<1>4. \A i \in DOMAIN os : ToSet(parts[i]) = IF os[i].enabled /\ os[i].tag = tag THEN {os[i].name} ELSE {}
  BY <1>3 DEF Adds
<1> HIDE DEF parts
<1>5. \A x : x \in ToSet(FlattenSeq(parts)) <=> \E i \in DOMAIN os : x \in ToSet(parts[i])
  BY <1>1, FlattenRange
<1>6. \A x : x \in ToSet(FlattenSeq(parts)) <=>
             \E i \in DOMAIN os : os[i].enabled /\ os[i].tag = tag /\ x = os[i].name
  BY <1>4, <1>5
<1>7. \A x : x \in Named(os, {tag}) <=>
             \E i \in DOMAIN os : os[i].enabled /\ os[i].tag = tag /\ x = os[i].name
  BY DEF Named, ToSet
<1> QED BY <1>2, <1>6, <1>7

(* A positive weight loses no outbound of the tag.                         *)
LEMMA RepeatsRange ==
  ASSUME NEW os, IsSeq(os), NEW tag, NEW w \in Nat \ {0}
  PROVE  ToSet(FlattenSeq(Repeats(os, tag, w))) = Named(os, {tag})
<1> DEFINE parts == Repeats(os, tag, w)
           S == NamesOf(os)
           b == outboundByTag(os, tag)
<1>1. b \in Seq(S) /\ ToSet(b) = Named(os, {tag})
  BY ByTagOK, ByTagRange
<1>2. parts \in [1 .. w -> Seq(S)] /\ \A k \in 1 .. w : parts[k] = b
  BY <1>1 DEF Repeats
<1> HIDE DEF parts, S, b
<1>3. parts \in Seq(Seq(S)) /\ Len(parts) = w
  BY <1>2, FcnIsSeq
<1>4. 1 \in 1 .. w
  BY SMT
<1>5. \A x : x \in ToSet(FlattenSeq(parts)) <=> \E i \in 1 .. w : x \in ToSet(parts[i])
  BY <1>3, FlattenRange
<1>6. \A x : x \in ToSet(FlattenSeq(parts)) <=> x \in ToSet(b)
  BY <1>2, <1>4, <1>5
<1> QED BY <1>1, <1>6 DEF parts

(* The parts one tag each, of some tags, have the outbounds of those tags. *)
LEMMA TagsRange ==
  ASSUME NEW os, NEW to, NEW S, NEW parts \in Seq(Seq(S)), DOMAIN to = 1 .. Len(parts),
         \A i \in DOMAIN to : ToSet(parts[i]) = Named(os, {to[i]})
  PROVE  ToSet(FlattenSeq(parts)) = Named(os, ToSet(to))
<1>1. \A x : x \in ToSet(FlattenSeq(parts)) <=> \E i \in DOMAIN to : x \in ToSet(parts[i])
  BY FlattenRange
<1>2. \A x : x \in ToSet(FlattenSeq(parts)) <=> \E i \in DOMAIN to : x \in Named(os, {to[i]})
  BY <1>1
<1>3. \A x : x \in Named(os, ToSet(to)) <=>
             \E o \in ToSet(os) : o.enabled /\ o.tag \in ToSet(to) /\ x = o.name
  BY DEF Named
<1>4. \A x, t : x \in Named(os, {t}) <=> \E o \in ToSet(os) : o.enabled /\ o.tag = t /\ x = o.name
  BY DEF Named
<1>5. \A t : t \in ToSet(to) <=> \E i \in DOMAIN to : t = to[i]
  BY DEF ToSet
<1>6. ASSUME NEW x PROVE x \in ToSet(FlattenSeq(parts)) <=> x \in Named(os, ToSet(to))
  <2>1. ASSUME NEW i \in DOMAIN to, x \in Named(os, {to[i]}) PROVE x \in Named(os, ToSet(to))
    <3> DEFINE t == to[i]
    <3>0. x \in Named(os, {t})
      BY <2>1
    <3> HIDE DEF t
    <3>1. PICK o \in ToSet(os) : o.enabled /\ o.tag = t /\ x = o.name
      BY <3>0 DEF Named
    <3>2. o.tag \in ToSet(to)
      BY <1>5, <3>1 DEF t
    <3> QED BY <1>3, <3>1, <3>2
  <2>2. ASSUME x \in Named(os, ToSet(to)) PROVE \E i \in DOMAIN to : x \in Named(os, {to[i]})
    <3>1. PICK o \in ToSet(os) : o.enabled /\ o.tag \in ToSet(to) /\ x = o.name
      BY <1>3, <2>2
    <3>2. PICK i \in DOMAIN to : o.tag = to[i]
      BY <1>5, <3>1
    <3> QED BY <1>4, <3>1, <3>2
  <2> QED BY <1>2, <2>1, <2>2
<1> QED BY <1>6

(* A rule's cycle has its enabled outbounds, and so have they unweighted.  *)
LEMMA CycleRange ==
  ASSUME NEW os, IsSeq(os), NEW rule, TargetsOK(rule)
  PROVE  /\ ToSet(Cycle(os, rule)) = Named(os, ToSet(rule.to))
         /\ ToSet(resolvedSet(os, rule)) = Named(os, ToSet(rule.to))
         /\ resolvedSet(os, rule) \in Seq(NamesOf(os))
<1> DEFINE parts == [i \in DOMAIN rule.to |-> FlattenSeq(Repeats(os, rule.to[i], rule.weights[rule.to[i]]))]
           plain == [i \in DOMAIN rule.to |-> outboundByTag(os, rule.to[i])]
           S == NamesOf(os)
           n == Len(rule.to)
<1>1. DOMAIN rule.to = 1 .. n /\ n \in Nat
  BY SeqOK DEF IsSeq, TargetsOK
<1>2. resolvedSet(os, rule) = FlattenSeq(plain)
  BY DEF resolvedSet
<1>3. rule.strategy = "weighted_round_robin" => Cycle(os, rule) = FlattenSeq(parts)
  BY DEF Cycle, expandWeightedResolved, Repeats
<1>4. rule.strategy # "weighted_round_robin" => Cycle(os, rule) = resolvedSet(os, rule)
  BY DEF Cycle
<1>5. ASSUME NEW i \in DOMAIN rule.to PROVE plain[i] \in Seq(S) /\ ToSet(plain[i]) = Named(os, {rule.to[i]})
  <2> DEFINE tag == rule.to[i]
  <2>1. plain[i] = outboundByTag(os, tag)
    OBVIOUS
  <2> HIDE DEF tag, plain
  <2>2. plain[i] \in Seq(S) /\ ToSet(plain[i]) = Named(os, {tag})
    BY <2>1, ByTagOK, ByTagRange
  <2> QED BY <2>2 DEF tag
<1>6. ASSUME rule.strategy = "weighted_round_robin", NEW i \in DOMAIN rule.to
      PROVE  parts[i] \in Seq(S) /\ ToSet(parts[i]) = Named(os, {rule.to[i]})
  <2> DEFINE tag == rule.to[i]
             w == rule.weights[tag]
  <2>1. parts[i] = FlattenSeq(Repeats(os, tag, w)) /\ w \in Nat \ {0}
    BY <1>6 DEF TargetsOK
  <2> HIDE DEF tag, w, parts
  <2>2. w \in Nat
    BY <2>1
  <2>3. parts[i] \in Seq(S)
    BY <2>1, <2>2, RepeatsOK
  <2>4. ToSet(parts[i]) = Named(os, {tag})
    BY <2>1, RepeatsRange
  <2> QED BY <2>3, <2>4 DEF tag
<1>7. plain \in [1 .. n -> Seq(S)]
  BY <1>1, <1>5
<1>8. rule.strategy = "weighted_round_robin" => parts \in [1 .. n -> Seq(S)]
  BY <1>1, <1>6
<1> HIDE DEF parts, plain, S
<1>9. plain \in Seq(Seq(S)) /\ Len(plain) = n
  BY <1>1, <1>7, FcnIsSeq
<1>10. ToSet(FlattenSeq(plain)) = Named(os, ToSet(rule.to)) /\ FlattenSeq(plain) \in Seq(S)
  <2>1. ToSet(FlattenSeq(plain)) = Named(os, ToSet(rule.to))
    BY <1>1, <1>5, <1>9, TagsRange
  <2>2. FlattenSeq(plain) \in Seq(S)
    BY <1>9, FlattenType
  <2> QED BY <2>1, <2>2
<1>11. ASSUME rule.strategy = "weighted_round_robin"
       PROVE  ToSet(FlattenSeq(parts)) = Named(os, ToSet(rule.to))
  <2>1. parts \in Seq(Seq(S)) /\ Len(parts) = n
    BY <1>1, <1>8, <1>11, FcnIsSeq
  <2> QED BY <1>1, <1>6, <1>11, <2>1, TagsRange
<1> QED BY <1>2, <1>3, <1>4, <1>10, <1>11 DEF S

(* Rotating loses nothing.                                                 *)
LEMMA RotateRange ==
  ASSUME NEW S, NEW values \in Seq(S), Len(values) # 0, NEW index \in 0 .. Len(values) - 1
  PROVE  ToSet(rotate(values, index)) = ToSet(values)
<1> DEFINE n == Len(values)
           r == rotate(values, index)
           from(i) == ((i - 1 + index) % n) + 1
<1>1. n \in Nat \ {0} /\ DOMAIN values = 1 .. n
  BY SMT
<1>2. r = [i \in 1 .. n |-> values[from(i)]]
  BY <1>1 DEF rotate
<1>3. \A i \in 1 .. n : from(i) \in 1 .. n
  <2>1. \A i \in 1 .. n : (i - 1 + index) % n \in 0 .. n - 1
    BY SMT, <1>1
  <2> QED BY SMT, <1>1, <2>1
<1>4. ASSUME NEW p \in 1 .. n PROVE \E i \in 1 .. n : from(i) = p
  <2>1. CASE index <= p - 1
    <3>1. p - index \in 1 .. n /\ p - index - 1 + index = p - 1 /\ p - 1 \in 0 .. n - 1 /\ (p - 1) + 1 = p
      BY SMT, <1>1, <2>1
    <3>2. (p - 1) % n = p - 1
      BY <1>1, <3>1, ModOK
    <3> QED BY <3>1, <3>2
  <2>2. CASE ~(index <= p - 1)
    <3>1. p - index + n \in 1 .. n /\ (p - index + n) - 1 + index = p - 1 + n /\ p - 1 \in 0 .. n - 1 /\ (p - 1) + 1 = p
      BY SMT, <1>1, <2>2
    <3>2. (p - 1 + n) % n = p - 1
      BY SMT, <1>1, <3>1
    <3> DEFINE i == p - index + n
    <3>3. i \in 1 .. n /\ i - 1 + index = p - 1 + n
      BY <3>1
    <3> HIDE DEF i
    <3>4. ((i - 1 + index) % n) + 1 = (p - 1) + 1
      BY <3>2, <3>3
    <3>5. from(i) = p
      BY <3>1, <3>4
    <3> QED BY <3>3, <3>5
  <2> QED BY <2>1, <2>2
<1> HIDE DEF from
<1>5. \A x : x \in ToSet(r) <=> \E i \in 1 .. n : x = values[from(i)]
  BY <1>2 DEF ToSet
<1>6. \A x : x \in ToSet(values) <=> \E p \in 1 .. n : x = values[p]
  BY <1>1 DEF ToSet
<1> QED BY <1>3, <1>4, <1>5, <1>6

(* Removing repeats loses nothing either, and leaves none.                 *)
NoRepeats(s) == \A i, j \in DOMAIN s : s[i] = s[j] => i = j

(* dedupePreserveOrder keeps every value, once.                            *)
LEMMA DedupeRange ==
  ASSUME NEW S, NEW values \in Seq(S)
  PROVE  LET o == dedupePreserveOrder(values)
         IN  o \in Seq(S) /\ ToSet(o) = ToSet(values) /\ NoRepeats(o)
<1> DEFINE n == Len(values)
<1>0. n \in Nat /\ n \in 0 .. n /\ DOMAIN values = 1 .. n /\ \A i \in 1 .. n : values[i] \in S
  BY SMT
<1>1. PICK f : Dedupes(f, values)
  BY DedupeOK
<1>2. /\ f[0] = << >> /\ \A i \in 1 .. n : f[i] = DedupeStep(f[i - 1], values[i])
      /\ f[n] = dedupePreserveOrder(values)
  BY <1>1 DEF Dedupes
<1> DEFINE Has(m) == \A x : x \in ToSet(f[m]) <=> \E i \in 1 .. m : x = values[i]
           G == {m \in 0 .. n : f[m] \in Seq(S) /\ NoRepeats(f[m]) /\ Has(m)}
<1>3. 0 \in G
  <2>1. << >> \in Seq(S) /\ ToSet(<< >>) = {} /\ DOMAIN << >> = {} /\ 1 .. 0 = {} /\ 0 \in 0 .. n
    BY SMT, <1>0 DEF ToSet
  <2>2. Has(0) /\ NoRepeats(<< >>)
    BY <1>2, <2>1 DEF NoRepeats
  <2> QED BY <1>2, <2>1, <2>2
<1>4. ASSUME NEW m \in 1 .. n, m - 1 \in G PROVE m \in G
  <2> DEFINE o == f[m - 1]
             v == values[m]
             u == Append(o, v)
  <2>1. o \in Seq(S) /\ NoRepeats(o) /\ Has(m - 1) /\ v \in S
    BY <1>0, <1>4
  <2>2. f[m] = IF v \in ToSet(o) THEN o ELSE u
    BY <1>2 DEF DedupeStep
  <2>3. m \in 0 .. n /\ \A i : i \in 1 .. m <=> (i \in 1 .. m - 1 \/ i = m)
    BY SMT, <1>0
  <2> HIDE DEF o, v
  <2>4. /\ u \in Seq(S) /\ Len(u) = Len(o) + 1 /\ Len(o) \in Nat /\ u[Len(u)] = v
        /\ DOMAIN u = 1 .. Len(u) /\ DOMAIN o = 1 .. Len(o) /\ Len(u) \notin DOMAIN o
        /\ \A i \in DOMAIN o : u[i] = o[i]
    BY SMT, <2>1
  <2>5. \A i : i \in DOMAIN u <=> (i \in DOMAIN o \/ i = Len(u))
    BY SMT, <2>4
  <2> HIDE DEF u
  <2>6. \A x : x \in ToSet(u) <=> (x \in ToSet(o) \/ x = v)
    BY <2>4, <2>5 DEF ToSet
  <2>7. v \notin ToSet(o) => NoRepeats(u)
    <3> SUFFICES ASSUME v \notin ToSet(o), NEW i \in DOMAIN u, NEW j \in DOMAIN u, u[i] = u[j] PROVE i = j
      BY DEF NoRepeats
    <3>1. \A k \in DOMAIN o : o[k] # v
      BY DEF ToSet
    <3> QED BY <2>1, <2>4, <2>5, <3>1 DEF NoRepeats
  <2>8. \A x : x \in ToSet(f[m]) <=> (x \in ToSet(o) \/ x = v)
    BY <2>2, <2>6
  <2>9. Has(m)
    BY <2>1, <2>3, <2>8 DEF o, v
  <2> HIDE DEF Has
  <2> QED BY <2>1, <2>2, <2>3, <2>4, <2>7, <2>9
<1> HIDE DEF G
<1>5. n \in G
  BY <1>0, <1>3, <1>4, Induct
<1>6. f[n] \in Seq(S) /\ NoRepeats(f[n]) /\ Has(n)
  BY <1>5 DEF G
<1>7. \A x : x \in ToSet(values) <=> \E i \in 1 .. n : x = values[i]
  BY <1>0 DEF ToSet
<1> QED BY <1>2, <1>6, <1>7

(* Without repeats there are as many values as places.                     *)
LEMMA NoRepeatsCard ==
  ASSUME NEW S, NEW s \in Seq(S)
  PROVE  NoRepeats(s) <=> Cardinality(ToSet(s)) = Len(s)
<1> DEFINE n == Len(s)
<1>1. n \in Nat /\ DOMAIN s = 1 .. n /\ s \in [1 .. n -> S]
  BY SMT
<1>2. IsFiniteSet(1 .. n) /\ Cardinality(1 .. n) = n
  <2>1. n \in Int /\ 1 \in Int /\ (1 > n => n = 0) /\ n - 1 + 1 = n
    BY SMT, <1>1
  <2> QED BY <2>1, FS_Interval
<1>3. s \in Surjection(1 .. n, ToSet(s))
  BY <1>1 DEF Surjection, ToSet
<1>4. Cardinality(ToSet(s)) = n <=> s \in Injection(1 .. n, ToSet(s))
  BY <1>2, <1>3, FS_Surjection
<1>5. s \in Injection(1 .. n, ToSet(s)) <=> NoRepeats(s)
  BY <1>1, <1>3 DEF Injection, Surjection, IsInjective, NoRepeats
<1> QED BY <1>4, <1>5

(* A plan goes to the enabled outbounds of its rule's tags.                *)
Wanted(steps, os, rule) ==
  /\ steps \in Seq(NamesOf(os))
  /\ ToSet(steps) = Named(os, ToSet(rule.to))
  /\ rule.strategy = "weighted_round_robin" => Cardinality(ToSet(steps)) = Len(steps)

(* From any index, the steps are the rule's outbounds, each once.          *)
LEMMA StepsRange ==
  ASSUME NEW os, IsSeq(os), NEW rule, TargetsOK(rule), resolvedSet(os, rule) # << >>
  PROVE  /\ Len(Cycle(os, rule)) \in Nat \ {0}
         /\ \A index \in 0 .. Len(Cycle(os, rule)) - 1 : Wanted(Steps(os, rule, index), os, rule)
<1> DEFINE cycle == Cycle(os, rule)
           S == NamesOf(os)
           w == Named(os, ToSet(rule.to))
<1>1. cycle \in Seq(S)
  BY CycleOK
<1>2. ToSet(cycle) = w /\ ToSet(resolvedSet(os, rule)) = w /\ resolvedSet(os, rule) \in Seq(S)
  BY CycleRange
<1>3. \A s \in Seq(S) : /\ Len(s) \in Nat
                        /\ s # << >> => Len(s) # 0 /\ 1 \in 1 .. Len(s)
                        /\ Len(s) = 0 => 1 .. Len(s) = {}
  BY SMT
<1> DEFINE rs == resolvedSet(os, rule)
<1> HIDE DEF cycle, S, w, rs
<1>4. w # {}
  <2>1. rs \in Seq(S) /\ ToSet(rs) = w /\ rs # << >>
    BY <1>2 DEF rs
  <2>2. 1 \in 1 .. Len(rs)
    BY <1>3, <2>1
  <2>3. rs[1] \in ToSet(rs)
    BY <2>1, <2>2, RangeOK
  <2> QED BY <2>1, <2>3
<1>5. Len(cycle) # 0
  BY <1>1, <1>2, <1>3, <1>4, RangeOK
<1>6. ASSUME NEW index \in 0 .. Len(cycle) - 1 PROVE Wanted(Steps(os, rule, index), os, rule)
  <2> DEFINE r == rotate(cycle, index)
             d == dedupePreserveOrder(r)
  <2>1. r \in Seq(S)
    BY <1>1, <1>5, RotateOK
  <2>2. ToSet(r) = w
    BY <1>1, <1>2, <1>5, RotateRange
  <2>3. Steps(os, rule, index) = IF rule.strategy = "weighted_round_robin" THEN d ELSE r
    BY DEF Steps, cycle
  <2> HIDE DEF r
  <2>4. d \in Seq(S) /\ ToSet(d) = ToSet(r) /\ NoRepeats(d)
    BY <2>1, DedupeRange
  <2> HIDE DEF d
  <2>5. Cardinality(ToSet(d)) = Len(d)
    BY <2>4, NoRepeatsCard
  <2> QED BY <2>1, <2>2, <2>3, <2>4, <2>5 DEF Wanted, S, w
<1> QED BY <1>1, <1>3, <1>5, <1>6 DEF cycle

-----------------------------------------------------------------------------
(* The models of an outbound *)

ModelsOK(models) == IsSeq(models) /\ \A k \in DOMAIN models : IsSeq(models[k].aliases)

(* A value of two parts occurs twice in what they make.                    *)
LEMMA CountRange ==
  ASSUME NEW S, NEW s \in Seq(S), NEW x
  PROVE  /\ Count(s, x) \in Nat
         /\ x \in ToSet(s) => Count(s, x) >= 1
         /\ NoRepeats(s) => Count(s, x) <= 1
<1>1. IsFiniteSet(At(s, x)) /\ Count(s, x) \in Nat
  BY CountType
<1>2. ASSUME x \in ToSet(s) PROVE Count(s, x) >= 1
  <2>1. At(s, x) # {}
    BY <1>2 DEF ToSet, At
  <2>2. Count(s, x) # 0
    BY <1>1, <2>1, FS_EmptySet DEF Count
  <2> QED BY SMT, <1>1, <2>2
<1>3. ASSUME NoRepeats(s) PROVE Count(s, x) <= 1
  <2>1. CASE At(s, x) = {}
    <3>1. Count(s, x) = 0
      BY <2>1, FS_EmptySet DEF Count
    <3> QED BY SMT, <3>1
  <2>2. CASE At(s, x) # {}
    <3>1. PICK p : p \in At(s, x)
      BY <2>2
    <3>2. At(s, x) = {p}
      BY <1>3, <3>1 DEF At, NoRepeats
    <3>3. Count(s, x) = 1
      BY <3>2, FS_Singleton DEF Count
    <3> QED BY SMT, <3>3
  <2> QED BY <2>1, <2>2
<1> QED BY <1>1, <1>2, <1>3

(* A value in two parts is twice in the whole.                             *)
LEMMA TwiceRepeats ==
  ASSUME NEW S, NEW parts \in Seq(Seq(S)), NEW k \in 1 .. Len(parts), NEW l \in 1 .. Len(parts), k < l,
         NEW x, x \in ToSet(parts[k]), x \in ToSet(parts[l])
  PROVE  ~NoRepeats(FlattenSeq(parts))
<1> DEFINE n == Len(parts)
           least(m) == IF m >= l THEN 2 ELSE IF m >= k THEN 1 ELSE 0
<1>0. n \in Nat /\ n \in 0 .. n /\ \A i \in 1 .. n : parts[i] \in Seq(S)
  BY SMT
<1>1. PICK f : Flattens(f, parts)
  BY FlattenOK
<1>2. f[0] = << >> /\ (\A i \in 1 .. n : f[i] = f[i - 1] \o parts[i]) /\ f[n] = FlattenSeq(parts)
  BY <1>1 DEF Flattens
<1> DEFINE G == {m \in 0 .. n : f[m] \in Seq(S) /\ Count(f[m], x) >= least(m)}
<1>3. 0 \in G
  <2>1. << >> \in Seq(S) /\ 0 \in 0 .. n /\ 0 >= least(0)
    BY SMT, <1>0
  <2> QED BY <1>2, <2>1, CountSmall
<1>4. ASSUME NEW m \in 1 .. n, m - 1 \in G PROVE m \in G
  <2> DEFINE y == f[m - 1]
             z == parts[m]
             cy == Count(y, x)
             cz == Count(z, x)
  <2>1. y \in Seq(S) /\ z \in Seq(S) /\ cy >= least(m - 1) /\ f[m] = y \o z
    BY <1>0, <1>2, <1>4
  <2>2. m = k \/ m = l => x \in ToSet(z)
    OBVIOUS
  <2> HIDE DEF y, z
  <2>3. cy \in Nat /\ cz \in Nat /\ (x \in ToSet(z) => cz >= 1)
    BY <2>1, CountRange
  <2>4. y \o z \in Seq(S) /\ Count(y \o z, x) = cy + cz
    BY ONLY SMT, <2>1, CountConcat
  <2> HIDE DEF cy, cz
  <2>5. (m = k \/ m = l) => cz >= 1
    BY <2>2, <2>3
  <2>6. cy + cz >= least(m) /\ m \in 0 .. n
    BY SMT, <1>0, <2>1, <2>3, <2>5
  <2> HIDE DEF least
  <2> QED BY <2>1, <2>4, <2>6
<1> HIDE DEF G
<1>5. n \in G
  BY <1>0, <1>3, <1>4, Induct
<1>6. f[n] \in Seq(S) /\ Count(f[n], x) >= 2
  <2>1. n >= l
    BY SMT
  <2> QED BY <1>5, <2>1 DEF G
<1>7. ~(Count(f[n], x) <= 1)
  <2>1. Count(f[n], x) \in Nat
    BY <1>6, CountRange
  <2> QED BY SMT, <1>6, <2>1
<1> QED BY <1>2, <1>6, <1>7, CountRange

(* Names and aliases that are all different belong to one model each.      *)
LEMMA AliasUnique ==
  ASSUME NEW models, ModelsOK(models), validateOutboundModels(models),
         NEW k \in DOMAIN models, NEW l \in DOMAIN models, NEW x,
         x \in NamesOfModel(models[k]), x \in NamesOfModel(models[l])
  PROVE  k = l
<1> DEFINE S == UNION {NamesOfModel(models[i]) : i \in DOMAIN models}
           parts == [i \in DOMAIN models |-> <<models[i].name>> \o models[i].aliases]
           n == Len(models)
<1>1. DOMAIN models = 1 .. n /\ n \in Nat
  BY SeqOK DEF ModelsOK, IsSeq
<1>2. ASSUME NEW i \in DOMAIN models PROVE parts[i] \in Seq(S) /\ ToSet(parts[i]) = NamesOfModel(models[i])
  <2> DEFINE nm == models[i].name
             al == models[i].aliases
             N == NamesOfModel(models[i])
  <2>1. al \in Seq(ToSet(al)) /\ N = {nm} \cup ToSet(al) /\ parts[i] = <<nm>> \o al
    BY DEF ModelsOK, IsSeq, NamesOfModel
  <2>2. \A y \in N : y \in S
    OBVIOUS
  <2> HIDE DEF nm, al, N, S, parts
  <2>3. nm \in S /\ (\A y \in ToSet(al) : y \in S)
    BY <2>1, <2>2
  <2>4. <<nm>> \in Seq(S) /\ al \in Seq(S)
    <3>1. <<nm>> \in Seq(S)
      BY SMT, <2>3
    <3>2. al \in [1 .. Len(al) -> S] /\ Len(al) \in Nat
      BY SMT, <2>1, <2>3
    <3>3. al \in Seq(S)
      BY <3>2, FcnIsSeq
    <3> QED BY <3>1, <3>3
  <2>5. ToSet(<<nm>>) = {nm}
    BY SMT DEF ToSet
  <2>6. <<nm>> \o al \in Seq(S) /\ ToSet(<<nm>> \o al) = ToSet(<<nm>>) \cup ToSet(al)
    BY <2>4, ConcatRange
  <2> QED BY <2>1, <2>5, <2>6 DEF N
<1>3. parts \in [1 .. n -> Seq(S)]
  BY <1>1, <1>2
<1>4. Cardinality(ToSet(FlattenSeq(parts))) = Len(FlattenSeq(parts))
  BY DEF validateOutboundModels
<1> HIDE DEF parts, S
<1>5. parts \in Seq(Seq(S)) /\ Len(parts) = n
  BY <1>1, <1>3, FcnIsSeq
<1>6. FlattenSeq(parts) \in Seq(S)
  BY <1>5, FlattenType
<1>7. NoRepeats(FlattenSeq(parts))
  BY <1>4, <1>6, NoRepeatsCard
<1>8. k \in 1 .. Len(parts) /\ l \in 1 .. Len(parts) /\ x \in ToSet(parts[k]) /\ x \in ToSet(parts[l])
  BY <1>1, <1>2, <1>5
<1>9. ~(k < l)
  BY <1>5, <1>7, <1>8, TwiceRepeats
<1>10. ~(l < k)
  BY <1>5, <1>7, <1>8, TwiceRepeats
<1> QED BY SMT, <1>1, <1>9, <1>10

(* What is sent is what the one model that has the name is called.         *)
LEMMA AliasOK ==
  ASSUME NEW models, ModelsOK(models), validateOutboundModels(models), NEW routed
  PROVE  LET offers(k) == routed \in NamesOfModel(models[k])
             sent == resolveOutboundModel(models, routed)
         IN  /\ \A k \in DOMAIN models : offers(k) => sent = <<models[k].name, FALSE>>
             /\ sent[2] = (models # << >> /\ ~\E k \in DOMAIN models : offers(k))
<1> DEFINE offers(k) == routed \in NamesOfModel(models[k])
           sent == resolveOutboundModel(models, routed)
           names == UNION {NamesOfModel(models[k]) : k \in DOMAIN models}
           table == compileOutboundModels(models)
<1>1. routed \in names <=> \E k \in DOMAIN models : offers(k)
  OBVIOUS
<1>2. DOMAIN table = names
  BY DEF compileOutboundModels
<1>3. ASSUME NEW k \in DOMAIN models, offers(k) PROVE table[routed] = models[k].name
  <2>1. {i \in DOMAIN models : routed \in NamesOfModel(models[i])} = {k}
    BY <1>3, AliasUnique
  <2>2. k \in Nat
    <3>1. DOMAIN models = 1 .. Len(models)
      BY SeqOK DEF ModelsOK, IsSeq
    <3> QED BY SMT, <3>1
  <2>3. \A y \in {k} : k >= y
    BY SMT, <2>2
  <2>4. Max({k}) = k
    BY <2>3 DEF Max
  <2>5. routed \in names
    BY <1>3
  <2> QED BY <2>1, <2>4, <2>5 DEF compileOutboundModels
<1>4. sent = IF routed \in DOMAIN table THEN <<table[routed], FALSE>> ELSE <<routed, models # << >> >>
  BY DEF resolveOutboundModel
<1> HIDE DEF table, sent, names, offers
<1>5. \A k \in DOMAIN models : offers(k) => sent = <<models[k].name, FALSE>>
  BY <1>1, <1>2, <1>3, <1>4
<1>6. sent[2] = (models # << >> /\ ~\E k \in DOMAIN models : offers(k))
  <2>1. \A a, b : <<a, b>>[2] = b
    BY SMT
  <2>2. CASE \E k \in DOMAIN models : offers(k)
    BY <1>1, <1>2, <1>4, <2>1, <2>2
  <2>3. CASE ~\E k \in DOMAIN models : offers(k)
    <3>1. sent[2] = (models # << >>)
      BY <1>1, <1>2, <1>4, <2>1, <2>3
    <3> QED BY <2>3, <3>1
  <2> QED BY <2>2, <2>3
<1> QED BY <1>5, <1>6 DEF offers, sent

-----------------------------------------------------------------------------
(* Model patterns *)

(* A literal stands at a position when each of its letters does.           *)
Stands(value, k, l) ==
  k >= 0 /\ k + Len(l) <= Len(value) /\ \A q \in 1 .. Len(l) : value[k + q] = l[q]

(* A literal stands at a place when all its letters do.                    *)
LEMMA HasAtOK ==
  ASSUME NEW B, NEW value \in Seq(B), NEW A, NEW l \in Seq(A), NEW k \in Int
  PROVE  HasAt(value, k, l) <=> Stands(value, k, l)
<1> DEFINE n == Len(l)
           sub == SubSeq(value, k + 1, k + n)
<1>1. n \in Nat /\ Len(value) \in Nat /\ DOMAIN l = 1 .. n /\ l = [q \in 1 .. n |-> l[q]]
  BY SMT
<1>2. ASSUME k >= 0, k + n <= Len(value) PROVE sub = [q \in 1 .. n |-> value[k + q]]
  <2> DEFINE x == k + 1
             y == k + n
  <2>1. /\ x \in 1 .. Len(value) + 1 /\ y \in x - 1 .. Len(value) /\ y - x + 1 = n
        /\ (IF x <= y THEN y - x + 1 ELSE 0) = n
    BY SMT, <1>1, <1>2
  <2>4. \A q \in 1 .. n : x + q - 1 = k + q
    BY SMT, <1>1, <1>2
  <2>6. x \in Int /\ y \in Int /\ \A q \in x .. y : value[q] \in B
    BY SMT, <1>1, <1>2
  <2>5. /\ SubSeq(value, x, y) \in Seq(B)
        /\ Len(SubSeq(value, x, y)) = IF x <= y THEN y - x + 1 ELSE 0
        /\ \A q \in 1 .. y - x + 1 : SubSeq(value, x, y)[q] = value[x + q - 1]
    <3> HIDE DEF x, y
    <3> QED BY SMT, <2>1, <2>6
  <2>2. Len(sub) = n /\ sub \in Seq(B) /\ \A q \in 1 .. n : sub[q] = value[k + q]
    <3>1. sub = SubSeq(value, x, y)
      OBVIOUS
    <3> HIDE DEF x, y, sub, n
    <3> QED BY <2>1, <2>4, <2>5, <3>1
  <2>3. DOMAIN sub = 1 .. n /\ sub = [q \in 1 .. n |-> sub[q]]
    <3> HIDE DEF sub
    <3> QED BY SMT, <1>1, <2>2
  <2> HIDE DEF sub
  <2> QED BY <2>2, <2>3
<1>3. ASSUME k >= 0, k + n <= Len(value)
      PROVE  sub = l <=> \A q \in 1 .. n : value[k + q] = l[q]
  <2>1. sub = [q \in 1 .. n |-> value[k + q]]
    BY <1>2, <1>3
  <2> HIDE DEF sub
  <2>2. ASSUME sub = l PROVE \A q \in 1 .. n : value[k + q] = l[q]
    BY <2>1, <2>2
  <2>3. ASSUME \A q \in 1 .. n : value[k + q] = l[q] PROVE sub = l
    BY <1>1, <2>1, <2>3
  <2> QED BY <2>2, <2>3
<1> HIDE DEF sub
<1>4. HasAt(value, k, l) <=> k >= 0 /\ k + n <= Len(value) /\ sub = l
  BY DEF HasAt, sub
<1> QED BY <1>3, <1>4 DEF Stands

(* A literal of one letter, and one letter more.                           *)
LEMMA HasAtOne ==
  ASSUME NEW B, NEW value \in Seq(B), NEW c, NEW k \in Int
  PROVE  HasAt(value, k, <<c>>) <=> k >= 0 /\ k + 1 <= Len(value) /\ value[k + 1] = c
<1>1. <<c>> \in Seq({c}) /\ Len(<<c>>) = 1 /\ <<c>>[1] = c /\ 1 .. 1 = {1}
  BY SMT
<1>2. HasAt(value, k, <<c>>) <=> Stands(value, k, <<c>>)
  BY <1>1, HasAtOK
<1> QED BY <1>1, <1>2 DEF Stands

(* A literal longer by one letter stands where the shorter does and the    *)
(* letter follows.                                                         *)
LEMMA HasAtMore ==
  ASSUME NEW B, NEW value \in Seq(B), NEW A, NEW l \in Seq(A), NEW c \in A, NEW k \in Int
  PROVE  HasAt(value, k, Append(l, c)) <=>
           /\ HasAt(value, k, l) /\ k + Len(l) + 1 <= Len(value)
           /\ value[k + Len(l) + 1] = c
<1> DEFINE m == Append(l, c)
           n == Len(l)
<1>1. /\ m \in Seq(A) /\ Len(m) = n + 1 /\ n \in Nat /\ m[n + 1] = c /\ (\A q \in 1 .. n : m[q] = l[q])
      /\ Len(value) \in Nat /\ k + (n + 1) = k + n + 1
  BY SMT
<1>2. \A q : q \in 1 .. n + 1 <=> q \in 1 .. n \/ q = n + 1
  BY SMT, <1>1
<1>3. k + n + 1 <= Len(value) => k + n <= Len(value)
  BY SMT, <1>1
<1> HIDE DEF m, n
<1>4. HasAt(value, k, m) <=>
        k >= 0 /\ k + Len(m) <= Len(value) /\ \A q \in 1 .. Len(m) : value[k + q] = m[q]
  <2>1. HasAt(value, k, m) <=> Stands(value, k, m)
    BY <1>1, HasAtOK
  <2> QED BY <2>1 DEF Stands
<1>5. HasAt(value, k, l) <=>
        k >= 0 /\ k + n <= Len(value) /\ \A q \in 1 .. n : value[k + q] = l[q]
  <2>1. HasAt(value, k, l) <=> Stands(value, k, l)
    BY HasAtOK
  <2> QED BY <2>1 DEF Stands, n
<1>6. (\A q \in 1 .. Len(m) : value[k + q] = m[q]) <=>
        (\A q \in 1 .. n : value[k + q] = l[q]) /\ value[k + n + 1] = c
  <2>1. n + 1 \in 1 .. n + 1 /\ value[k + (n + 1)] = value[k + n + 1]
    BY <1>1, <1>2
  <2>2. ASSUME \A q \in 1 .. Len(m) : value[k + q] = m[q]
        PROVE  (\A q \in 1 .. n : value[k + q] = l[q]) /\ value[k + n + 1] = c
    <3>1. value[k + (n + 1)] = m[n + 1]
      BY <1>1, <2>1, <2>2
    <3>2. ASSUME NEW q \in 1 .. n PROVE value[k + q] = l[q]
      BY <1>1, <1>2, <2>2
    <3> QED BY <1>1, <2>1, <3>1, <3>2
  <2>3. ASSUME \A q \in 1 .. n : value[k + q] = l[q], value[k + n + 1] = c, NEW q \in 1 .. Len(m)
        PROVE  value[k + q] = m[q]
    <3>1. CASE q \in 1 .. n
      BY <1>1, <2>3, <3>1
    <3>2. CASE q = n + 1
      BY <1>1, <2>1, <2>3, <3>2
    <3> QED BY <1>1, <1>2, <3>1, <3>2
  <2> QED BY <2>2, <2>3
<1>7. HasAt(value, k, m) <=> HasAt(value, k, l) /\ k + n + 1 <= Len(value) /\ value[k + n + 1] = c
  BY <1>1, <1>3, <1>4, <1>5, <1>6
<1> QED BY <1>7 DEF m, n

(* Where a literal may stand: from a position on, or at the start only.    *)
Occurs(value, l, from, anchored) ==
  {k \in 0 .. Len(value) : from # Fails /\ from <= k /\ HasAt(value, k, l) /\ (anchored => k = 0)}

Ends(occurs, l) == {k + Len(l) : k \in occurs}

(* The search for literal i of a pattern, whatever comes after it.         *)
Open(ls, leading) == [literals |-> ls, leadingStar |-> leading, trailingStar |-> TRUE]

(* It finds the first occurrence.                                          *)
LEMMA SearchOK ==
  ASSUME NEW B, NEW value \in Seq(B), NEW A, NEW ls \in Seq(Seq(A)), NEW i \in 1 .. Len(ls),
         NEW leading \in BOOLEAN, NEW from \in -1 .. Len(value), i = 1 => from = 0
  PROVE  LET res == Advance(Open(ls, leading), value, from, i)
             occurs == Occurs(value, ls[i], from, i = 1 /\ ~leading)
         IN  /\ res \in -1 .. Len(value)
             /\ \A j \in 0 .. Len(value) :
                  (\E k \in Ends(occurs, ls[i]) : k <= j) <=> (res # Fails /\ res <= j)
<1> DEFINE l == ls[i]
           V == Len(value)
           res == Advance(Open(ls, leading), value, from, i)
           occurs == Occurs(value, l, from, i = 1 /\ ~leading)
           found == {k \in from .. V - Len(l) : HasAt(value, k, l)}
<1> SUFFICES /\ res \in -1 .. V
             /\ \A j \in 0 .. V : (\E k \in Ends(occurs, l) : k <= j) <=> (res # Fails /\ res <= j)
  OBVIOUS
<1>1. V \in Nat /\ l \in Seq(A) /\ Len(l) \in Nat /\ from \in Int /\ Fails = -1 /\ Fails \in -1 .. V
  BY SMT DEF Fails
<1>2. res = CASE from = Fails -> Fails
              [] from # Fails /\ i = 1 /\ ~leading -> IF HasAt(value, 0, l) THEN Len(l) ELSE Fails
              [] OTHER -> IF found = {} THEN Fails ELSE Min(found) + Len(l)
  BY DEF Advance, Open
<1>3. \A k \in Int : HasAt(value, k, l) => k >= 0 /\ k + Len(l) <= V
  BY <1>1, HasAtOK DEF Stands
<1>4. CASE from = Fails
  <2>1. res = Fails
    BY <1>2, <1>4
  <2>2. Ends(occurs, l) = {}
    BY <1>4 DEF Occurs, Ends
  <2> HIDE DEF occurs, res
  <2> QED BY <1>1, <2>1, <2>2
<1>5. CASE from # Fails /\ i = 1 /\ ~leading
  <2>1. res = IF HasAt(value, 0, l) THEN Len(l) ELSE Fails
    BY <1>2, <1>5
  <2>2. from = 0 /\ 0 \in 0 .. V /\ 0 <= 0 /\ 0 \in Int /\ 0 + Len(l) = Len(l)
    BY SMT, <1>1, <1>5
  <2>3. occurs = IF HasAt(value, 0, l) THEN {0} ELSE {}
    BY <1>5, <2>2 DEF Occurs
  <2>4. CASE HasAt(value, 0, l)
    <3>1. Ends(occurs, l) = {Len(l)} /\ res = Len(l)
      BY <2>1, <2>2, <2>3, <2>4 DEF Ends
    <3>2. Len(l) \in -1 .. V /\ Len(l) # Fails
      <4>1. 0 + Len(l) <= V
        BY <1>3, <2>2, <2>4
      <4> QED BY SMT, <1>1, <4>1
    <3> HIDE DEF occurs, res
    <3> QED BY <3>1, <3>2
  <2>5. CASE ~HasAt(value, 0, l)
    <3>1. Ends(occurs, l) = {} /\ res = Fails
      BY <2>1, <2>3, <2>5 DEF Ends
    <3> HIDE DEF occurs, res
    <3> QED BY <1>1, <3>1
  <2> QED BY <2>4, <2>5
<1>6. CASE from # Fails /\ ~(i = 1 /\ ~leading)
  <2>1. res = IF found = {} THEN Fails ELSE Min(found) + Len(l)
    BY <1>2, <1>6
  <2>2. ASSUME NEW k PROVE k \in found <=> k \in occurs
    <3>1. (k \in 0 .. V /\ from <= k /\ k + Len(l) <= V) <=> (k \in from .. V - Len(l))
      BY SMT, <1>1, <1>6
    <3>2. k \in from .. V - Len(l) => k \in Int
      BY SMT, <1>1
    <3>3. k \in 0 .. V => k \in Int
      BY SMT
    <3> QED BY <1>3, <1>6, <3>1, <3>2, <3>3 DEF Occurs
  <2>3. \A k \in found : k \in Nat /\ k + Len(l) <= V
    <3>1. \A k \in from .. V - Len(l) : k \in Nat /\ k + Len(l) <= V
      BY SMT, <1>1, <1>6
    <3> QED BY <3>1
  <2> HIDE DEF found, occurs, res
  <2>4. \A x : x \in Ends(occurs, l) <=> \E k \in found : x = k + Len(l)
    BY <2>2 DEF Ends
  <2>5. CASE found = {}
    BY <1>1, <2>1, <2>4, <2>5
  <2>6. CASE found # {}
    <3> DEFINE a == Min(found)
    <3>1. a \in found /\ \A y \in found : a <= y
      <4>1. found \in SUBSET Nat
        BY <2>3
      <4>2. \E x \in found : \A y \in found : x <= y
        BY <2>6, <4>1, LeastNumber
      <4> QED BY <4>2 DEF Min
    <3>2. res = a + Len(l)
      BY <2>1, <2>6
    <3> HIDE DEF a
    <3>3. res \in -1 .. V /\ res # Fails
      BY SMT, <1>1, <2>3, <3>1, <3>2
    <3>4. \A k \in found : res <= k + Len(l) /\ k + Len(l) \in Int /\ res \in Int
      BY SMT, <1>1, <2>3, <3>1, <3>2
    <3>5. \A x, y, z \in Int : x <= y /\ y <= z => x <= z
      BY SMT
    <3>6. \A j \in 0 .. V : j \in Int
      BY SMT
    <3>7. ASSUME NEW j \in 0 .. V PROVE (\E k \in Ends(occurs, l) : k <= j) <=> res <= j
      <4>1. ASSUME NEW x \in Ends(occurs, l), x <= j PROVE res <= j
        <5>1. PICK k \in found : x = k + Len(l)
          BY <2>4, <4>1
        <5> QED BY <3>4, <3>5, <3>6, <4>1, <5>1
      <4>2. res \in Ends(occurs, l)
        BY <2>4, <3>1, <3>2
      <4> QED BY <4>1, <4>2
    <3> QED BY <3>3, <3>7
  <2> QED BY <2>5, <2>6
<1> QED BY <1>4, <1>5, <1>6

(* How the recursive definitions of Glob, Literals and matches go on.      *)
ReachNext(pattern, value, i, prev) ==
  {j \in 0 .. Len(value) :
     IF pattern[i] = Star THEN \E k \in prev : k <= j ELSE j - 1 \in prev /\ value[j] = pattern[i]}

PartsNext(pattern, i, prev) ==
  IF pattern[i] = Star THEN prev
  ELSE IF i = 1 \/ pattern[i - 1] = Star THEN Append(prev, <<pattern[i]>>)
  ELSE [prev EXCEPT ![Len(prev)] = Append(@, pattern[i])]

(* The lengths Glob follows.                                               *)
LEMMA ReachOK ==
  ASSUME NEW A, NEW pattern \in Seq(A), NEW B, NEW value \in Seq(B)
  PROVE  \E f \in [0 .. Len(pattern) -> SUBSET (0 .. Len(value))] :
           /\ f[0] = {0}
           /\ \A i \in 1 .. Len(pattern) : f[i] = ReachNext(pattern, value, i, f[i - 1])
           /\ Glob(pattern, value) <=> Len(value) \in f[Len(pattern)]
<1> DEFINE P == Len(pattern)
           T == SUBSET (0 .. Len(value))
           Next(i, prev) == ReachNext(pattern, value, i, prev)
           F == [x \in (1 .. P) \X T |-> Next(x[1], x[2])]
           Is(g) == g = [i \in 0 .. P |-> IF i = 0 THEN {0} ELSE Next(i, g[i - 1])]
           h == CHOOSE g : Is(g)
<1>1. /\ P \in Nat /\ Len(value) \in Nat /\ 0 \in 0 .. P /\ 0 \in 0 .. Len(value)
      /\ \A i \in 1 .. P : i \in 0 .. P /\ i # 0 /\ i - 1 \in 0 .. P
      /\ \A i \in 0 .. P : i # 0 => i \in 1 .. P
  BY SMT
<1>2. {0} \in T /\ \A i, prev : Next(i, prev) \in T
  BY <1>1 DEF ReachNext
<1>3. Glob(pattern, value) <=> Len(value) \in h[P]
  BY DEF Glob, ReachNext
<1> HIDE DEF T, Next, P
<1>4. F \in [(1 .. P) \X T -> T]
  BY <1>2
<1> HIDE DEF F
<1>0. PICK f \in [0 .. P -> T] : Follows(f, P, {0}, F)
  BY <1>1, <1>2, <1>4, Recursion
<1>5. f[0] = {0} /\ \A i \in 1 .. P : f[i] = F[<<i, f[i - 1]>>]
  BY <1>0 DEF Follows
<1>6. \A i \in 1 .. P : f[i] = Next(i, f[i - 1])
  <2> TAKE i \in 1 .. P
  <2> DEFINE y == f[i - 1]
  <2>1. y \in T /\ <<i, y>> \in (1 .. P) \X T
    BY <1>1, <1>5
  <2>2. F[<<i, y>>] = Next(i, y)
    <3> HIDE DEF y
    <3> QED BY <2>1 DEF F
  <2> QED BY <1>5, <2>2
<1>7. Is(f)
  BY <1>1, <1>5, <1>6
<1>8. Is(h)
  <2> HIDE DEF Is
  <2> QED BY <1>7
<1> HIDE DEF h
<1>9. h[0] = {0} /\ \A i \in 1 .. P : h[i] = Next(i, h[i - 1])
  BY <1>1, <1>8
<1>10. h \in [0 .. P -> T]
  <2>1. ASSUME NEW i \in 0 .. P PROVE h[i] \in T
    <3>1. CASE i = 0
      BY <1>2, <1>9, <3>1
    <3>2. CASE i # 0
      BY SMT, <1>1, <1>2, <1>9, <3>2
    <3> QED BY <3>1, <3>2
  <2> QED BY <1>8, <2>1
<1> QED BY <1>3, <1>9, <1>10 DEF T, P, Next

(* The literals of the pattern's prefixes.                                 *)
LEMMA PartsType ==
  ASSUME NEW A, NEW pattern \in Seq(A), NEW i \in 1 .. Len(pattern), NEW prev \in Seq(Seq(A))
  PROVE  PartsNext(pattern, i, prev) \in Seq(Seq(A))
<1> DEFINE c == pattern[i]
           n == Len(prev)
<1>1. c \in A /\ n \in Nat
  BY SMT
<1> HIDE DEF c
<1>2. <<c>> \in Seq(A)
  BY SMT, <1>1
<1>3. Append(prev, <<c>>) \in Seq(Seq(A))
  <2> DEFINE l == <<c>>
             S == Seq(A)
  <2> HIDE DEF l, S
  <2>1. l \in S
    BY <1>2 DEF l, S
  <2>2. prev \in Seq(S)
    BY DEF S
  <2>3. Append(prev, l) \in Seq(S)
    BY SMT, <2>1, <2>2
  <2> QED BY <2>3 DEF l, S
<1>4. [prev EXCEPT ![n] = Append(@, c)] \in Seq(Seq(A))
  <2>1. CASE n = 0
    <3>1. [prev EXCEPT ![n] = Append(@, c)] = prev
      BY SMT, <2>1
    <3> QED BY <3>1
  <2>2. CASE n # 0
    <3>1. n \in 1 .. n /\ prev[n] \in Seq(A)
      BY SMT, <1>1, <2>2
    <3> DEFINE l == Append(prev[n], c)
               S == Seq(A)
    <3>2. l \in S
      <4> DEFINE q == prev[n]
      <4>1. q \in Seq(A)
        BY <3>1
      <4> HIDE DEF q
      <4>2. Append(q, c) \in Seq(A)
        BY SMT, <1>1, <4>1
      <4> QED BY <4>2 DEF q
    <3> HIDE DEF l
    <3> HIDE DEF S
    <3>3. prev \in Seq(S)
      BY DEF S
    <3>4. [prev EXCEPT ![n] = l] \in Seq(S)
      BY SMT, <3>1, <3>2, <3>3
    <3> QED BY <3>4 DEF l, S
  <2> QED BY <2>1, <2>2
<1> QED BY <1>3, <1>4 DEF PartsNext, c

(* compileModelPatterns splits a pattern letter by letter.                 *)
LEMMA PartsOK ==
  ASSUME NEW A, NEW pattern \in Seq(A)
  PROVE  \E f \in [0 .. Len(pattern) -> Seq(Seq(A))] :
           /\ f[0] = <<>>
           /\ \A i \in 1 .. Len(pattern) : f[i] = PartsNext(pattern, i, f[i - 1])
           /\ Literals(pattern) = f[Len(pattern)]
<1> DEFINE P == Len(pattern)
           T == Seq(Seq(A))
           Next(i, prev) == PartsNext(pattern, i, prev)
           F == [x \in (1 .. P) \X T |-> Next(x[1], x[2])]
           Is(g) == g = [i \in 0 .. P |-> IF i = 0 THEN <<>> ELSE Next(i, g[i - 1])]
           h == CHOOSE g : Is(g)
<1>1. /\ P \in Nat /\ 0 \in 0 .. P
      /\ \A i \in 1 .. P : i \in 0 .. P /\ i # 0 /\ i - 1 \in 0 .. P
      /\ \A i \in 0 .. P : i # 0 => i \in 1 .. P
  BY SMT
<1>2. <<>> \in T /\ \A i \in 1 .. P, prev \in T : Next(i, prev) \in T
  <2>1. <<>> \in T
    BY SMT
  <2> QED BY <2>1, PartsType
<1>3. Literals(pattern) = h[P]
  BY DEF Literals, PartsNext
<1> HIDE DEF T, Next, P
<1>4. F \in [(1 .. P) \X T -> T]
  BY <1>2
<1> HIDE DEF F
<1>0. PICK f \in [0 .. P -> T] : Follows(f, P, <<>>, F)
  BY <1>1, <1>2, <1>4, Recursion
<1>5. f[0] = <<>> /\ \A i \in 1 .. P : f[i] = F[<<i, f[i - 1]>>]
  BY <1>0 DEF Follows
<1>6. \A i \in 1 .. P : f[i] = Next(i, f[i - 1])
  <2> TAKE i \in 1 .. P
  <2> DEFINE y == f[i - 1]
  <2>1. y \in T /\ <<i, y>> \in (1 .. P) \X T
    BY <1>1, <1>5
  <2>2. F[<<i, y>>] = Next(i, y)
    <3> HIDE DEF y
    <3> QED BY <2>1 DEF F
  <2> QED BY <1>5, <2>2
<1>7. Is(f)
  BY <1>1, <1>5, <1>6
<1>8. Is(h)
  <2> HIDE DEF Is
  <2> QED BY <1>7
<1> HIDE DEF h
<1>9. h[0] = <<>> /\ \A i \in 1 .. P : h[i] = Next(i, h[i - 1])
  BY <1>1, <1>8
<1>10. \A i \in 0 .. P : h[i] \in T
  <2> DEFINE G == {i \in 0 .. P : h[i] \in T}
  <2>1. 0 \in G
    BY <1>1, <1>2, <1>9
  <2>2. \A i \in 1 .. P : i - 1 \in G => i \in G
    BY <1>1, <1>2, <1>9
  <2> HIDE DEF G
  <2>3. \A i \in 0 .. P : i \in G
    BY <1>1, <2>1, <2>2, Induct
  <2> QED BY <2>3 DEF G
<1>11. h \in [0 .. P -> T]
  BY <1>8, <1>10
<1> QED BY <1>3, <1>9, <1>11 DEF T, P, Next

(* A position in the value, or Fails, comes from Advance again.            *)
LEMMA AdvanceType ==
  ASSUME NEW B, NEW value \in Seq(B), NEW A, NEW p, p.literals \in Seq(Seq(A)),
         NEW i \in 1 .. Len(p.literals), NEW from \in -1 .. Len(value)
  PROVE  Advance(p, value, from, i) \in -1 .. Len(value)
<1> DEFINE ls == p.literals
           l == ls[i]
           V == Len(value)
           found == {k \in from .. V - Len(l) : HasAt(value, k, l)}
<1>1. V \in Nat /\ l \in Seq(A) /\ Len(l) \in Nat /\ from \in Int /\ -1 \in -1 .. V /\ V \in -1 .. V
  <2> HIDE DEF ls
  <2>1. ls \in Seq(Seq(A)) /\ i \in 1 .. Len(ls)
    BY DEF ls
  <2> QED BY SMT, <2>1
<1>2. HasAt(value, 0, l) => Len(l) \in -1 .. V
  BY SMT, <1>1 DEF HasAt
<1>3. ASSUME from # -1, found # {} PROVE Min(found) + Len(l) \in -1 .. V
  <2>1. \A k \in from .. V - Len(l) : k \in Nat /\ k + Len(l) \in -1 .. V
    BY SMT, <1>1, <1>3
  <2>2. found \in SUBSET Nat
    BY <2>1
  <2>3. \E x \in found : \A y \in found : x <= y
    <3> HIDE DEF found
    <3> QED BY <1>3, <2>2, LeastNumber
  <2>4. Min(found) \in found
    <3> HIDE DEF found
    <3> QED BY <2>3 DEF Min
  <2> QED BY <2>1, <2>4
<1> HIDE DEF found
<1>4. CASE from = Fails
  BY <1>1, <1>4 DEF Advance, Fails
<1>5. CASE from # Fails
  <2>1. CASE i = 1 /\ ~p.leadingStar
    BY <1>1, <1>2, <1>5, <2>1 DEF Advance, Fails
  <2>2. CASE ~(i = 1 /\ ~p.leadingStar) /\ i = Len(p.literals) /\ ~p.trailingStar /\ (i > 1 \/ p.leadingStar)
    BY <1>1, <1>5, <2>2 DEF Advance, Fails
  <2>3. CASE ~(i = 1 /\ ~p.leadingStar) /\ ~(i = Len(p.literals) /\ ~p.trailingStar /\ (i > 1 \/ p.leadingStar))
    BY <1>1, <1>3, <1>5, <2>3 DEF Advance, Fails, found
  <2> QED BY <2>1, <2>2, <2>3
<1> QED BY <1>4, <1>5

(* The positions matches goes through.                                     *)
Searches(f, p, value) ==
  f[0] = 0 /\ \A i \in 1 .. Len(p.literals) : f[i] = Advance(p, value, f[i - 1], i)

(* matches finds the literals one by one.                                  *)
LEMMA MatchesOK ==
  ASSUME NEW B, NEW value \in Seq(B), NEW A, NEW p, p.literals \in Seq(Seq(A))
  PROVE  \E f \in [0 .. Len(p.literals) -> -1 .. Len(value)] :
           /\ Searches(f, p, value)
           /\ LET end == f[Len(p.literals)]
              IN  matches(p, value) <=>
                    p.literals = <<>> \/ (end # Fails /\ (p.trailingStar \/ end = Len(value)))
<1> DEFINE P == Len(p.literals)
           T == -1 .. Len(value)
           Next(i, prev) == Advance(p, value, prev, i)
           F == [x \in (1 .. P) \X T |-> Next(x[1], x[2])]
           Is(g) == g = [i \in 0 .. P |-> IF i = 0 THEN 0 ELSE Next(i, g[i - 1])]
           h == CHOOSE g : Is(g)
<1>1. /\ P \in Nat /\ Len(value) \in Nat /\ 0 \in 0 .. P
      /\ \A i \in 1 .. P : i \in 0 .. P /\ i # 0 /\ i - 1 \in 0 .. P
      /\ \A i \in 0 .. P : i # 0 => i \in 1 .. P
  <2>1. P \in Nat /\ Len(value) \in Nat
    BY SMT
  <2> HIDE DEF P
  <2> QED BY SMT, <2>1
<1>2. 0 \in T /\ \A i \in 1 .. P, prev \in T : Next(i, prev) \in T
  <2>1. 0 \in T
    BY SMT, <1>1
  <2> QED BY <2>1, AdvanceType
<1>3. matches(p, value) <=> p.literals = <<>> \/ (h[P] # Fails /\ (p.trailingStar \/ h[P] = Len(value)))
  BY DEF matches
<1> HIDE DEF T, Next, P
<1>4. F \in [(1 .. P) \X T -> T]
  BY <1>2
<1> HIDE DEF F
<1>0. PICK f \in [0 .. P -> T] : Follows(f, P, 0, F)
  BY <1>1, <1>2, <1>4, Recursion
<1>5. f[0] = 0 /\ \A i \in 1 .. P : f[i] = F[<<i, f[i - 1]>>]
  BY <1>0 DEF Follows
<1>6. \A i \in 1 .. P : f[i] = Next(i, f[i - 1])
  <2> TAKE i \in 1 .. P
  <2> DEFINE y == f[i - 1]
  <2>1. y \in T /\ <<i, y>> \in (1 .. P) \X T
    BY <1>1, <1>5
  <2>2. F[<<i, y>>] = Next(i, y)
    <3> HIDE DEF y
    <3> QED BY <2>1 DEF F
  <2> QED BY <1>5, <2>2
<1>7. Is(f)
  BY <1>1, <1>5, <1>6
<1>8. Is(h)
  <2> HIDE DEF Is
  <2> QED BY <1>7
<1> HIDE DEF h
<1>9. h[0] = 0 /\ \A i \in 1 .. P : h[i] = Next(i, h[i - 1])
  BY <1>1, <1>8
<1>10. \A i \in 0 .. P : h[i] \in T
  <2> DEFINE G == {i \in 0 .. P : h[i] \in T}
  <2>1. 0 \in G
    BY <1>1, <1>2, <1>9
  <2>2. \A i \in 1 .. P : i - 1 \in G => i \in G
    BY <1>1, <1>2, <1>9
  <2> HIDE DEF G
  <2>3. \A i \in 0 .. P : i \in G
    BY <1>1, <2>1, <2>2, Induct
  <2> QED BY <2>3 DEF G
<1>11. h \in [0 .. P -> T]
  BY <1>8, <1>10
<1>12. Searches(h, p, value)
  BY <1>9 DEF Searches, P, Next
<1> QED BY <1>3, <1>11, <1>12 DEF T, P

(* How the literals grow: a star changes nothing, a letter begins a        *)
(* literal or goes on with the last one.                                   *)
Parts(f, pattern) ==
  f[0] = <<>> /\ \A i \in 1 .. Len(pattern) : f[i] = PartsNext(pattern, i, f[i - 1])

Begins(pattern, i) == i = 1 \/ pattern[i - 1] = Star

Begun(s, t, c) ==
  Len(t) = Len(s) + 1 /\ t[Len(t)] = <<c>> /\ \A k \in 1 .. Len(t) - 1 : t[k] = s[k]

Continued(s, t, c) ==
  Len(t) = Len(s) /\ t[Len(t)] = Append(s[Len(t)], c) /\ \A k \in 1 .. Len(t) - 1 : t[k] = s[k]

Grown(pattern, i, s, t) ==
  /\ pattern[i] = Star => t = s
  /\ pattern[i] # Star /\ Begins(pattern, i) => Begun(s, t, pattern[i])
  /\ pattern[i] # Star /\ ~Begins(pattern, i) /\ Len(s) >= 1 => Continued(s, t, pattern[i])

(* A literal begins.                                                       *)
LEMMA BegunOK ==
  ASSUME NEW S, NEW s \in Seq(S), NEW c, NEW l \in S, l = <<c>>
  PROVE  Begun(s, Append(s, l), c)
<1>1. /\ Len(Append(s, l)) = Len(s) + 1 /\ Append(s, l)[Len(s) + 1] = l
      /\ \A k \in 1 .. Len(s) : Append(s, l)[k] = s[k]
  BY SMT
<1>2. (Len(s) + 1) - 1 = Len(s)
  BY SMT
<1> QED BY <1>1, <1>2 DEF Begun

(* A literal goes on.                                                      *)
LEMMA ContinuedOK ==
  ASSUME NEW S, NEW s \in Seq(S), NEW l \in S, NEW c, l = Append(s[Len(s)], c), Len(s) >= 1
  PROVE  Continued(s, [s EXCEPT ![Len(s)] = l], c)
<1> DEFINE t == [s EXCEPT ![Len(s)] = l]
<1>1. Len(t) = Len(s) /\ t[Len(s)] = l /\ \A k \in 1 .. Len(s) - 1 : t[k] = s[k]
  BY SMT
<1> HIDE DEF t
<1>2. Continued(s, t, c)
  BY <1>1 DEF Continued
<1> QED BY <1>2 DEF t

(* What one letter of a pattern adds to its literals.                      *)
LEMMA PartsGrow ==
  ASSUME NEW A, NEW pattern \in Seq(A), NEW f \in [0 .. Len(pattern) -> Seq(Seq(A))],
         Parts(f, pattern), NEW i \in 1 .. Len(pattern)
  PROVE  f[i - 1] \in Seq(Seq(A)) /\ f[i] \in Seq(Seq(A)) /\ Grown(pattern, i, f[i - 1], f[i])
<1> DEFINE c == pattern[i]
           s == f[i - 1]
           t == f[i]
           S == Seq(A)
<1>1. c \in A /\ i \in 0 .. Len(pattern) /\ i - 1 \in 0 .. Len(pattern)
  BY SMT
<1>2. s \in Seq(S) /\ t \in Seq(S)
  BY <1>1
<1>3. t = PartsNext(pattern, i, s)
  BY DEF Parts
<1>4. c = Star => t = s
  BY <1>3 DEF PartsNext
<1>5. c # Star /\ Begins(pattern, i) => t = Append(s, <<c>>)
  BY <1>3 DEF PartsNext, Begins
<1>6. c # Star /\ ~Begins(pattern, i) => t = [s EXCEPT ![Len(s)] = Append(s[Len(s)], c)]
  BY <1>3 DEF PartsNext, Begins
<1> HIDE DEF s, t, c
<1>7. <<c>> \in S
  BY SMT, <1>1
<1>8. ASSUME Len(s) >= 1 PROVE Append(s[Len(s)], c) \in S
  <2> DEFINE q == s[Len(s)]
  <2>1. q \in S
    <3> HIDE DEF S
    <3> QED BY SMT, <1>2, <1>8
  <2> HIDE DEF q
  <2>2. Append(q, c) \in S
    BY SMT, <1>1, <2>1
  <2> QED BY <2>2 DEF q
<1> HIDE DEF S
<1>9. c # Star /\ Begins(pattern, i) => Begun(s, t, c)
  BY <1>2, <1>5, <1>7, BegunOK
<1>10. ASSUME c # Star, ~Begins(pattern, i), Len(s) >= 1 PROVE Continued(s, t, c)
  <2> DEFINE l == Append(s[Len(s)], c)
  <2>1. l \in S
    BY <1>8, <1>10
  <2>2. t = [s EXCEPT ![Len(s)] = l] /\ l = Append(s[Len(s)], c)
    BY <1>6, <1>10
  <2> HIDE DEF l
  <2> QED BY <1>2, <1>10, <2>1, <2>2, ContinuedOK
<1> QED BY <1>2, <1>4, <1>9, <1>10 DEF s, t, c, S, Grown

(* A letter leaves a literal behind.                                       *)
LEMMA PartsShape ==
  ASSUME NEW A, NEW pattern \in Seq(A), NEW f \in [0 .. Len(pattern) -> Seq(Seq(A))],
         Parts(f, pattern), NEW j \in 1 .. Len(pattern), pattern[j] # Star \/ pattern[1] # Star
  PROVE  Len(f[j]) >= 1
<1> DEFINE P == Len(pattern)
           Has(i) == (pattern[i] # Star \/ pattern[1] # Star) => Len(f[i]) >= 1
           G == {i \in 0 .. P : i # 0 => Has(i)}
<1>1. P \in Nat /\ 0 \in 0 .. P /\ j \in 0 .. P /\ j # 0
  BY SMT
<1>2. 0 \in G
  BY <1>1
<1>3. ASSUME NEW i \in 1 .. P, i - 1 \in G PROVE i \in G
  <2> DEFINE s == f[i - 1]
             t == f[i]
             c == pattern[i]
  <2>1. /\ s \in Seq(Seq(A)) /\ t \in Seq(Seq(A)) /\ (c = Star => t = s)
        /\ c # Star /\ Begins(pattern, i) => Begun(s, t, c)
        /\ c # Star /\ ~Begins(pattern, i) /\ Len(s) >= 1 => Continued(s, t, c)
    <3>1. s \in Seq(Seq(A)) /\ t \in Seq(Seq(A)) /\ Grown(pattern, i, s, t)
      BY PartsGrow
    <3> QED BY <3>1 DEF Grown
  <2>2. i \in 0 .. P /\ (i # 1 => i - 1 # 0)
    BY SMT
  <2> HIDE DEF s, t
  <2>3. CASE c = Star
    <3>1. c = pattern[1] \/ Len(s) >= 1 \/ pattern[1] = Star
      BY <1>3, <2>2 DEF s
    <3> QED BY <2>1, <2>2, <2>3, <3>1 DEF t
  <2>4. CASE c # Star /\ Begins(pattern, i)
    <3>1. Len(t) = Len(s) + 1
      BY <2>1, <2>4 DEF Begun
    <3>2. Len(t) >= 1
      BY SMT, <2>1, <3>1
    <3> QED BY <2>2, <3>2 DEF t
  <2>5. CASE c # Star /\ ~Begins(pattern, i)
    <3>1. Len(s) >= 1
      BY <1>3, <2>2, <2>5 DEF s, Begins
    <3>2. Len(t) = Len(s)
      BY <2>1, <2>5, <3>1 DEF Continued
    <3> QED BY <2>2, <3>1, <3>2 DEF t
  <2> QED BY <2>3, <2>4, <2>5
<1> HIDE DEF G
<1>4. j \in G
  BY <1>1, <1>2, <1>3, Induct
<1> QED BY <1>1, <1>4 DEF G

(* A literal that no letter follows is one of the pattern's.               *)
Closed(pattern, i) ==
  i = 0 \/ i = Len(pattern) \/ pattern[i] = Star \/ pattern[i + 1] = Star

Agrees(pattern, i, s, ls) ==
  /\ Len(s) <= Len(ls)
  /\ \A k \in 1 .. Len(s) : (k < Len(s) \/ Closed(pattern, i)) => s[k] = ls[k]

(* The literals of a pattern's beginning are the first of the whole's.     *)
LEMMA PartsAgree ==
  ASSUME NEW A, NEW pattern \in Seq(A), NEW f \in [0 .. Len(pattern) -> Seq(Seq(A))],
         Parts(f, pattern), NEW j \in 0 .. Len(pattern)
  PROVE  Agrees(pattern, j, f[j], f[Len(pattern)])
<1> DEFINE P == Len(pattern)
           ls == f[P]
           G == {d \in 0 .. P : Agrees(pattern, P - d, f[P - d], ls)}
<1>1. P \in Nat /\ 0 \in 0 .. P /\ P - 0 = P /\ P - j \in 0 .. P /\ P - (P - j) = j /\ P \in 0 .. P
  BY SMT
<1>2. ls \in Seq(Seq(A)) /\ Len(ls) \in Nat /\ Len(ls) <= Len(ls)
  <2>1. ls \in Seq(Seq(A))
    BY <1>1
  <2> HIDE DEF ls
  <2> QED BY SMT, <2>1
<1> HIDE DEF ls
<1>3. 0 \in G
  BY <1>1, <1>2 DEF Agrees, ls
<1>4. ASSUME NEW d \in 1 .. P, d - 1 \in G PROVE d \in G
  <2> DEFINE i == P - (d - 1)
             s == f[i - 1]
             t == f[i]
             c == pattern[i]
  <2>1. i \in 1 .. P /\ P - d = i - 1 /\ d \in 0 .. P /\ (i - 1) + 1 = i /\ i - 1 # P
    BY SMT, <1>1
  <2>2. Agrees(pattern, i, t, ls)
    BY <1>4
  <2> HIDE DEF i
  <2>3. /\ s \in Seq(Seq(A)) /\ t \in Seq(Seq(A)) /\ (c = Star => t = s)
        /\ c # Star /\ Begins(pattern, i) => Begun(s, t, c)
        /\ c # Star /\ ~Begins(pattern, i) /\ Len(s) >= 1 => Continued(s, t, c)
    <3>1. s \in Seq(Seq(A)) /\ t \in Seq(Seq(A)) /\ Grown(pattern, i, s, t)
      BY <2>1, PartsGrow
    <3> QED BY <3>1 DEF Grown
  <2>4. i # 1 => i - 1 \in 1 .. P /\ i - 1 # 0
    BY SMT, <2>1
  <2> SUFFICES Agrees(pattern, i - 1, s, ls)
    BY <2>1
  <2>5. i # 1 /\ pattern[i - 1] # Star => Len(s) >= 1
    BY <2>4, PartsShape
  <2> HIDE DEF s, t
  <2>6. Len(s) \in Nat /\ Len(t) \in Nat
    BY SMT, <2>3
  <2>7. CASE c = Star
    BY <2>2, <2>3, <2>7 DEF Agrees, Closed
  <2>8. CASE c # Star /\ Begins(pattern, i)
    <3>1. Len(t) = Len(s) + 1 /\ \A k \in 1 .. Len(t) - 1 : t[k] = s[k]
      BY <2>3, <2>8 DEF Begun
    <3>2. Len(t) <= Len(ls) /\ \A k \in 1 .. Len(t) : k < Len(t) => t[k] = ls[k]
      BY <2>2 DEF Agrees
    <3>3. \A k \in 1 .. Len(s) : k \in 1 .. Len(t) /\ k < Len(t) /\ k \in 1 .. Len(t) - 1
      BY SMT, <2>6, <3>1
    <3>4. Len(s) <= Len(ls)
      BY SMT, <1>2, <2>6, <3>1, <3>2
    <3> QED BY <3>1, <3>2, <3>3, <3>4 DEF Agrees
  <2>9. CASE c # Star /\ ~Begins(pattern, i)
    <3>1. Len(s) >= 1
      BY <2>5, <2>9 DEF Begins
    <3>2. Len(t) = Len(s) /\ \A k \in 1 .. Len(t) - 1 : t[k] = s[k]
      BY <2>3, <2>9, <3>1 DEF Continued
    <3>3. Len(t) <= Len(ls) /\ \A k \in 1 .. Len(t) : k < Len(t) => t[k] = ls[k]
      BY <2>2 DEF Agrees
    <3>4. \A k \in 1 .. Len(s) : k < Len(s) => k \in 1 .. Len(s) - 1
      BY SMT, <2>6
    <3>5. ~Closed(pattern, i - 1)
      BY <2>1, <2>4, <2>9 DEF Closed, Begins
    <3> QED BY <3>2, <3>3, <3>4, <3>5 DEF Agrees
  <2> QED BY <2>7, <2>8, <2>9
<1> HIDE DEF G
<1>5. P - j \in G
  BY <1>1, <1>3, <1>4, Induct
<1> QED BY <1>1, <1>5 DEF G, ls

(* What Glob reaches: after a star all lengths from a position on, after a *)
(* letter the ends of the occurrences of the last literal.                 *)
From(value, x) == {j \in 0 .. Len(value) : x # Fails /\ x <= j}

(* A star at the beginning reaches every place.                            *)
LEMMA StarFirst ==
  ASSUME NEW B, NEW value \in Seq(B), NEW pattern, NEW i, pattern[i] = Star
  PROVE  ReachNext(pattern, value, i, {0}) = From(value, 0)
<1>1. \A j \in 0 .. Len(value) : 0 <= j /\ 0 # Fails
  BY SMT DEF Fails
<1> QED BY <1>1 DEF ReachNext, From

(* A star reaches every place from the first one on.                       *)
LEMMA StarAgain ==
  ASSUME NEW B, NEW value \in Seq(B), NEW pattern, NEW i, pattern[i] = Star,
         NEW x \in -1 .. Len(value)
  PROVE  ReachNext(pattern, value, i, From(value, x)) = From(value, x)
<1>1. \A j \in 0 .. Len(value), k \in 0 .. Len(value) : x <= k /\ k <= j => x <= j
  BY SMT
<1>2. \A j \in 0 .. Len(value) : j <= j
  BY SMT
<1>3. ASSUME NEW j \in 0 .. Len(value)
      PROVE  (\E k \in From(value, x) : k <= j) <=> j \in From(value, x)
  BY <1>1, <1>2 DEF From
<1>4. ReachNext(pattern, value, i, From(value, x)) = {j \in 0 .. Len(value) : \E k \in From(value, x) : k <= j}
  BY DEF ReachNext
<1>5. From(value, x) = {j \in 0 .. Len(value) : j \in From(value, x)}
  BY DEF From
<1> QED BY <1>3, <1>4, <1>5

(* A star after a literal.                                                 *)
LEMMA StarAfter ==
  ASSUME NEW B, NEW value \in Seq(B), NEW A, NEW ls \in Seq(Seq(A)), NEW k \in 1 .. Len(ls),
         NEW leading \in BOOLEAN, NEW from \in -1 .. Len(value), k = 1 => from = 0,
         NEW pattern, NEW i, pattern[i] = Star
  PROVE  ReachNext(pattern, value, i, Ends(Occurs(value, ls[k], from, k = 1 /\ ~leading), ls[k]))
           = From(value, Advance(Open(ls, leading), value, from, k))
<1> DEFINE res == Advance(Open(ls, leading), value, from, k)
           ends == Ends(Occurs(value, ls[k], from, k = 1 /\ ~leading), ls[k])
<1>1. \A j \in 0 .. Len(value) : (\E x \in ends : x <= j) <=> (res # Fails /\ res <= j)
  BY SearchOK
<1> HIDE DEF res, ends
<1>2. ReachNext(pattern, value, i, ends) = From(value, res)
  BY <1>1 DEF ReachNext, From
<1> QED BY <1>2 DEF res, ends

(* The first letter of a literal.                                          *)
Starts(value, x, anchored) == {j \in From(value, x) : anchored => j = 0}

(* The first letter of a literal is reached where it stands.               *)
LEMMA LetterFirst ==
  ASSUME NEW B, NEW value \in Seq(B), NEW pattern, NEW i, pattern[i] # Star,
         NEW x, NEW anchored, NEW l, l = <<pattern[i]>>
  PROVE  ReachNext(pattern, value, i, Starts(value, x, anchored)) = Ends(Occurs(value, l, x, anchored), l)
<1> DEFINE c == pattern[i]
           prev == Starts(value, x, anchored)
           V == Len(value)
           occurs == Occurs(value, l, x, anchored)
<1>1. Len(l) = 1 /\ V \in Nat
  BY SMT
<1>2. \A k \in 0 .. V : k \in Int /\ (HasAt(value, k, l) <=> k + 1 <= V /\ value[k + 1] = c)
  <2>1. \A k \in 0 .. V : k \in Int /\ k >= 0
    BY SMT
  <2> QED BY <2>1, HasAtOne
<1> HIDE DEF c
<1>3. \A k : k \in occurs <=> k \in prev /\ k + 1 <= V /\ value[k + 1] = c
  BY <1>2 DEF Occurs, From, Starts
<1>4. \A k \in prev : k \in 0 .. V
  BY DEF From, Starts
<1> HIDE DEF prev
<1> HIDE DEF occurs
<1>5. ASSUME NEW j
      PROVE  (j \in 0 .. V /\ j - 1 \in prev /\ value[j] = c) <=> (\E k \in occurs : j = k + 1)
  <2>1. ASSUME j \in 0 .. V, j - 1 \in prev, value[j] = c PROVE \E k \in occurs : j = k + 1
    <3> DEFINE k == j - 1
    <3>1. j = k + 1 /\ k + 1 <= V
      BY SMT, <1>1, <2>1
    <3>2. k \in prev
      BY <2>1
    <3> HIDE DEF k
    <3> QED BY <1>3, <2>1, <3>1, <3>2
  <2>2. ASSUME NEW k \in occurs, j = k + 1 PROVE j \in 0 .. V /\ j - 1 \in prev /\ value[j] = c
    <3>1. k \in prev /\ k + 1 <= V /\ value[k + 1] = c /\ k \in 0 .. V
      BY <1>3, <1>4
    <3>2. j \in 0 .. V /\ j - 1 = k
      BY SMT, <1>1, <2>2, <3>1
    <3> QED BY <2>2, <3>1, <3>2
  <2> QED BY <2>1, <2>2
<1>6. ReachNext(pattern, value, i, prev) = {j \in 0 .. V : j - 1 \in prev /\ value[j] = c}
  BY DEF ReachNext, c
<1>7. Ends(occurs, l) = {k + 1 : k \in occurs}
  BY <1>1 DEF Ends
<1>8. ReachNext(pattern, value, i, prev) = Ends(occurs, l)
  BY <1>5, <1>6, <1>7
<1> QED BY <1>8 DEF occurs, prev

(* One letter more of a literal.                                           *)
LEMMA LetterMore ==
  ASSUME NEW B, NEW value \in Seq(B), NEW A, NEW l \in Seq(A), NEW pattern, NEW i,
         pattern[i] # Star, pattern[i] \in A, NEW x \in -1 .. Len(value), NEW anchored \in BOOLEAN
  PROVE  LET m == Append(l, pattern[i])
         IN  ReachNext(pattern, value, i, Ends(Occurs(value, l, x, anchored), l))
               = Ends(Occurs(value, m, x, anchored), m)
<1> DEFINE c == pattern[i]
           m == Append(l, c)
           n == Len(l)
           V == Len(value)
           old == Occurs(value, l, x, anchored)
           new == Occurs(value, m, x, anchored)
           prev == Ends(old, l)
<1>1. Len(m) = n + 1 /\ V \in Nat /\ n \in Nat
  BY SMT
<1>2. ASSUME NEW k \in 0 .. V
      PROVE  HasAt(value, k, m) <=> HasAt(value, k, l) /\ k + n + 1 <= V /\ value[k + n + 1] = c
  <2>1. k \in Int
    BY SMT
  <2> HIDE DEF c
  <2>2. c \in A
    BY DEF c
  <2> QED BY SMT, <2>1, <2>2, HasAtMore
<1> HIDE DEF c, m, n
<1>3. \A k : k \in new <=> k \in old /\ k + n + 1 <= V /\ value[k + n + 1] = c
  BY <1>2 DEF Occurs
<1>4. \A k \in old : k \in 0 .. V
  BY DEF Occurs
<1> HIDE DEF old, new
<1>5. \A j : j \in prev <=> \E k \in old : j = k + n
  BY DEF Ends, n
<1>6. \A j : j \in Ends(new, m) <=> \E k \in new : j = k + (n + 1)
  BY <1>1 DEF Ends
<1> HIDE DEF prev
<1>7. ASSUME NEW j
      PROVE  (j \in 0 .. V /\ j - 1 \in prev /\ value[j] = c) <=> (\E k \in new : j = k + (n + 1))
  <2>1. ASSUME j \in 0 .. V, j - 1 \in prev, value[j] = c PROVE \E k \in new : j = k + (n + 1)
    <3>1. PICK k \in old : j - 1 = k + n
      BY <1>5, <2>1
    <3>2. k \in 0 .. V
      BY <1>4
    <3>3. j = k + n + 1 /\ j = k + (n + 1) /\ k + n + 1 <= V
      BY SMT, <1>1, <2>1, <3>1, <3>2
    <3>4. k \in new
      BY <1>3, <2>1, <3>3
    <3> QED BY <3>3, <3>4
  <2>2. ASSUME NEW k \in new, j = k + (n + 1) PROVE j \in 0 .. V /\ j - 1 \in prev /\ value[j] = c
    <3>1. k \in old /\ k + n + 1 <= V /\ value[k + n + 1] = c /\ k \in 0 .. V
      BY <1>3, <1>4
    <3>2. j \in 0 .. V /\ j - 1 = k + n /\ j = k + n + 1
      BY SMT, <1>1, <2>2, <3>1
    <3>3. j - 1 \in prev
      BY <1>5, <3>1, <3>2
    <3> QED BY <3>1, <3>2, <3>3
  <2> QED BY <2>1, <2>2
<1>8. ReachNext(pattern, value, i, prev) = {j \in 0 .. V : j - 1 \in prev /\ value[j] = c}
  BY DEF ReachNext, c
<1>9. ReachNext(pattern, value, i, prev) = Ends(new, m)
  BY <1>6, <1>7, <1>8
<1> QED BY <1>9 DEF prev, old, new, m, c

Reached(pattern, value, i, reach, s, find, leading) ==
  LET m == Len(s)
  IN  reach = IF pattern[i] = Star THEN From(value, find[m])
              ELSE Ends(Occurs(value, s[m], find[m - 1], m = 1 /\ ~leading), s[m])

Compiled(A, B, pattern, value, f, ls, leading, find) ==
  /\ pattern \in Seq(A) /\ value \in Seq(B) /\ ls \in Seq(Seq(A)) /\ leading \in BOOLEAN
  /\ f \in [0 .. Len(pattern) -> Seq(Seq(A))] /\ find \in [0 .. Len(ls) -> -1 .. Len(value)]
  /\ Parts(f, pattern) /\ ls = f[Len(pattern)] /\ (leading <=> pattern[1] = Star) /\ find[0] = 0
  /\ \A k \in 1 .. Len(ls) : find[k] = Advance(Open(ls, leading), value, find[k - 1], k)

ReachedAt(pattern, value, i, reach, f, find, leading) ==
  IF i = 0 THEN reach = {0} ELSE Reached(pattern, value, i, reach, f[i], find, leading)

(* One letter more of the pattern: the places reached are those the search *)
(* allows.                                                                 *)
LEMMA ReachedStep ==
  ASSUME NEW A, NEW B, NEW pattern, NEW value, NEW f, NEW ls, NEW leading, NEW find,
         Compiled(A, B, pattern, value, f, ls, leading, find), NEW i \in 1 .. Len(pattern), NEW prev,
         ReachedAt(pattern, value, i - 1, prev, f, find, leading)
  PROVE  ReachedAt(pattern, value, i, ReachNext(pattern, value, i, prev), f, find, leading)
<1>g. pattern \in Seq(A) /\ value \in Seq(B) /\ ls \in Seq(Seq(A)) /\ leading \in BOOLEAN
  BY DEF Compiled
<1>h. f \in [0 .. Len(pattern) -> Seq(Seq(A))] /\ find \in [0 .. Len(ls) -> -1 .. Len(value)]
  BY DEF Compiled
<1> USE <1>g, <1>h
<1>i. (i = 1 => i - 1 = 0) /\ (i # 1 => i - 1 # 0) /\ i # 0
  BY SMT
<1>j. i = 1 => prev = {0}
  BY <1>i DEF ReachedAt
<1>k. i # 1 => Reached(pattern, value, i - 1, prev, f[i - 1], find, leading)
  BY <1>i DEF ReachedAt
<1> USE <1>j, <1>k
<1> SUFFICES Reached(pattern, value, i, ReachNext(pattern, value, i, prev), f[i], find, leading)
  BY <1>i DEF ReachedAt
<1>a. Parts(f, pattern)
  BY DEF Compiled
<1>b. ls = f[Len(pattern)]
  BY DEF Compiled
<1>c. leading <=> pattern[1] = Star
  BY DEF Compiled
<1>d. find[0] = 0
  BY DEF Compiled
<1>e. \A k \in 1 .. Len(ls) : find[k] = Advance(Open(ls, leading), value, find[k - 1], k)
  BY DEF Compiled
<1> USE <1>a, <1>b, <1>c, <1>d, <1>e
<1> DEFINE P == Len(pattern)
           s == f[i - 1]
           t == f[i]
           c == pattern[i]
           m == Len(s)
<1>1. /\ P \in Nat /\ i \in 0 .. P /\ i - 1 \in 0 .. P /\ (i # 1 => i - 1 \in 1 .. P) /\ c \in A
      /\ (i - 1) + 1 = i /\ (i = 1 => i - 1 = 0)
  BY SMT
<1>2. s \in Seq(Seq(A)) /\ t \in Seq(Seq(A)) /\ Grown(pattern, i, s, t)
  BY PartsGrow
<1>3. Agrees(pattern, i - 1, s, ls) /\ Agrees(pattern, i, t, ls)
  BY <1>1, PartsAgree
<1>4. i # 1 /\ (pattern[i - 1] # Star \/ pattern[1] # Star) => Len(s) >= 1
  BY <1>1, PartsShape
<1>5. i = 1 => s = <<>>
  BY <1>1 DEF Parts
<1>6. i # 1 => Reached(pattern, value, i - 1, prev, s, find, leading)
  OBVIOUS
<1>0. value \in Seq(B) /\ ls \in Seq(Seq(A)) /\ leading \in BOOLEAN
  OBVIOUS
<1> HIDE DEF s, t, c
<1>7. m \in Nat /\ Len(t) \in Nat /\ m \in 0 .. Len(ls) /\ Len(<<>>) = 0
  <2>1. Len(s) <= Len(ls)
    BY <1>3 DEF Agrees
  <2> QED BY SMT, <1>2, <2>1
<1>8. ASSUME m >= 1
      PROVE  /\ m \in 1 .. Len(ls) /\ m - 1 \in 0 .. Len(ls) /\ m \in 1 .. m
             /\ s[m] \in Seq(A) /\ (m = 1 => m - 1 = 0)
  <2> DEFINE S == Seq(A)
  <2>1. s \in Seq(S)
    BY <1>2
  <2> HIDE DEF S
  <2>2. s[m] \in S
    BY SMT, <1>8, <2>1
  <2>3. /\ m \in 1 .. Len(ls) /\ m - 1 \in 0 .. Len(ls) /\ m \in 1 .. m
        /\ (m = 1 => m - 1 = 0)
    <3> HIDE DEF m
    <3>1. Len(ls) \in Nat
      BY SMT
    <3> QED BY SMT, <1>7, <1>8, <3>1
  <2> QED BY <2>2, <2>3 DEF S
<1> HIDE DEF m
<1>9. CASE c = Star /\ i = 1
  <2>1. t = <<>> /\ Len(t) = 0
    BY <1>2, <1>5, <1>7, <1>9 DEF Grown, c
  <2>2. ReachNext(pattern, value, i, prev) = From(value, 0)
    <3>1. pattern[i] = Star /\ prev = {0}
      BY <1>9 DEF c
    <3> QED BY ONLY SMT, <1>0, <3>1, StarFirst
  <2> QED BY <1>9, <2>1, <2>2 DEF Reached, t, c
<1>10. CASE c = Star /\ i # 1 /\ pattern[i - 1] = Star
  <2> DEFINE x == find[m]
  <2>1. prev = From(value, x)
    BY <1>6, <1>10 DEF Reached, m
  <2>2. x \in -1 .. Len(value)
    BY <1>7
  <2>3. t = s
    BY <1>2, <1>10 DEF Grown, c
  <2> HIDE DEF x
  <2>4. ReachNext(pattern, value, i, prev) = From(value, x)
    <3>1. pattern[i] = Star
      BY <1>10 DEF c
    <3> QED BY ONLY SMT, <1>0, <2>1, <2>2, <3>1, StarAgain
  <2> QED BY <1>10, <2>3, <2>4 DEF Reached, t, c, x, m
<1>11. CASE c = Star /\ i # 1 /\ pattern[i - 1] # Star
  <2> DEFINE x == find[m - 1]
  <2>1. m >= 1
    BY <1>4, <1>11 DEF m
  <2>2. prev = Ends(Occurs(value, s[m], x, m = 1 /\ ~leading), s[m])
    BY <1>6, <1>11 DEF Reached, m
  <2>3. Closed(pattern, i - 1)
    BY <1>1, <1>11 DEF Closed, c
  <2>4. s[m] = ls[m]
    BY <1>3, <1>8, <2>1, <2>3 DEF Agrees, m
  <2>5. x \in -1 .. Len(value) /\ (m = 1 => x = 0)
    BY <1>8, <2>1
  <2>6. find[m] = Advance(Open(ls, leading), value, x, m)
    BY <1>8, <2>1
  <2>7. t = s
    BY <1>2, <1>11 DEF Grown, c
  <2> HIDE DEF x
  <2>8. ReachNext(pattern, value, i, Ends(Occurs(value, ls[m], x, m = 1 /\ ~leading), ls[m]))
          = From(value, Advance(Open(ls, leading), value, x, m))
    <3>1. pattern[i] = Star /\ m \in 1 .. Len(ls)
      BY <1>8, <1>11, <2>1 DEF c
    <3> QED BY ONLY SMT, <1>0, <2>5, <3>1, StarAfter
  <2>9. ReachNext(pattern, value, i, prev) = From(value, find[m])
    BY <2>2, <2>4, <2>6, <2>8
  <2> QED BY <1>11, <2>7, <2>9 DEF Reached, t, c, m
<1>12. CASE c # Star /\ i = 1
  <2>1. Begun(s, t, c)
    BY <1>2, <1>12 DEF Grown, c, Begins
  <2>2. Len(t) = 1 /\ t[1] = <<c>> /\ 1 - 1 = 0
    <3>1. Len(t) = 0 + 1 /\ t[Len(t)] = <<c>>
      BY <1>5, <1>7, <1>12, <2>1 DEF Begun
    <3>2. 0 + 1 = 1 /\ 1 - 1 = 0
      BY SMT
    <3> QED BY <3>1, <3>2
  <2>3. prev = Starts(value, 0, TRUE)
    <3>1. 0 \in 0 .. Len(value) /\ 0 # Fails /\ 0 <= 0
      BY SMT DEF Fails
    <3> QED BY <1>12, <3>1 DEF From, Starts
  <2>5. ReachNext(pattern, value, i, prev) = Ends(Occurs(value, <<c>>, 0, TRUE), <<c>>)
    <3>1. pattern[i] # Star
      BY <1>12 DEF c
    <3> DEFINE l == <<pattern[i]>>
               a == TRUE
    <3>2. l = <<pattern[i]>>
      OBVIOUS
    <3> HIDE DEF l, a
    <3>3. ReachNext(pattern, value, i, Starts(value, 0, a)) = Ends(Occurs(value, l, 0, a), l)
      BY ONLY SMT, <1>0, <3>1, <3>2, LetterFirst
    <3> QED BY <2>3, <3>3 DEF l, a, c
  <2>6. (1 = 1 /\ ~leading) = TRUE
    BY <1>12 DEF c
  <2> QED BY <1>12, <2>2, <2>5, <2>6 DEF Reached, t, c
<1>13. CASE c # Star /\ i # 1 /\ pattern[i - 1] = Star
  <2> DEFINE x == find[m]
  <2>1. Begun(s, t, c)
    BY <1>2, <1>13 DEF Grown, c, Begins
  <2>2. Len(t) = m + 1 /\ t[m + 1] = <<c>> /\ (m + 1) - 1 = m /\ (m + 1 = 1 => ~(m >= 1))
    <3>1. Len(t) = m + 1 /\ t[Len(t)] = <<c>>
      BY <2>1 DEF Begun, m
    <3>2. (m + 1) - 1 = m /\ (m + 1 = 1 => ~(m >= 1))
      BY SMT, <1>7
    <3> QED BY <3>1, <3>2
  <2>3. prev = From(value, x)
    BY <1>6, <1>13 DEF Reached, m
  <2>4. prev = Starts(value, x, FALSE)
    BY <2>3 DEF Starts, From
  <2>5. x \in -1 .. Len(value)
    BY <1>7
  <2> HIDE DEF x
  <2>6. ReachNext(pattern, value, i, prev) = Ends(Occurs(value, <<c>>, x, FALSE), <<c>>)
    <3>1. pattern[i] # Star
      BY <1>13 DEF c
    <3> DEFINE l == <<pattern[i]>>
               a == FALSE
    <3>2. l = <<pattern[i]>>
      OBVIOUS
    <3> HIDE DEF l, a
    <3>3. ReachNext(pattern, value, i, Starts(value, x, a)) = Ends(Occurs(value, l, x, a), l)
      BY ONLY SMT, <1>0, <3>1, <3>2, LetterFirst
    <3> QED BY <2>4, <3>3 DEF l, a, c
  <2>7. (m + 1 = 1 /\ ~leading) = FALSE
    BY <1>4, <1>13, <2>2 DEF m
  <2> QED BY <1>13, <2>2, <2>6, <2>7 DEF Reached, t, c, x
<1>14. CASE c # Star /\ i # 1 /\ pattern[i - 1] # Star
  <2> DEFINE x == find[m - 1]
             l == s[m]
             anchored == m = 1 /\ ~leading
  <2>1. m >= 1
    BY <1>4, <1>14 DEF m
  <2>2. Continued(s, t, c)
    BY <1>2, <1>14, <2>1 DEF Grown, c, Begins, m
  <2>3. Len(t) = m /\ t[m] = Append(l, c)
    BY <2>2 DEF Continued, m
  <2>4. prev = Ends(Occurs(value, l, x, anchored), l)
    BY <1>6, <1>14 DEF Reached, m
  <2>5. x \in -1 .. Len(value) /\ l \in Seq(A) /\ anchored \in BOOLEAN
    BY <1>8, <2>1
  <2> HIDE DEF x, l, anchored
  <2>6. ReachNext(pattern, value, i, prev) = Ends(Occurs(value, Append(l, c), x, anchored), Append(l, c))
    <3>1. pattern[i] # Star /\ pattern[i] \in A
      BY <1>1, <1>14 DEF c
    <3> QED BY ONLY SMT, <1>0, <2>4, <2>5, <3>1, LetterMore DEF c
  <2> QED BY <1>14, <2>3, <2>6 DEF Reached, t, c, x, anchored
<1> QED BY <1>9, <1>10, <1>11, <1>12, <1>13, <1>14

(* The places the whole pattern reaches.                                   *)
LEMMA ReachedOK ==
  ASSUME NEW A, NEW B, NEW pattern, NEW value, NEW f, NEW ls, NEW leading, NEW find,
         Compiled(A, B, pattern, value, f, ls, leading, find), NEW reach, reach[0] = {0},
         \A i \in 1 .. Len(pattern) : reach[i] = ReachNext(pattern, value, i, reach[i - 1]),
         Len(pattern) >= 1
  PROVE  Reached(pattern, value, Len(pattern), reach[Len(pattern)], ls, find, leading)
<1> DEFINE P == Len(pattern)
           Is(i, r) == ReachedAt(pattern, value, i, r, f, find, leading)
           G == {i \in 0 .. P : Is(i, reach[i])}
<1>0. pattern \in Seq(A) /\ ls = f[P]
  BY DEF Compiled
<1>1. P \in Nat /\ 0 \in 0 .. P /\ P \in 0 .. P /\ P # 0
  BY SMT, <1>0
<1>2. 0 \in G
  BY <1>1 DEF ReachedAt
<1>3. ASSUME NEW i \in 1 .. P, i - 1 \in G PROVE i \in G
  <2> DEFINE prev == reach[i - 1]
  <2>1. i \in 0 .. P
    BY SMT
  <2>2. Is(i - 1, prev)
    BY <1>3
  <2>3. reach[i] = ReachNext(pattern, value, i, prev)
    OBVIOUS
  <2> HIDE DEF prev
  <2>4. Is(i, ReachNext(pattern, value, i, prev))
    BY <2>2, ReachedStep
  <2> QED BY <2>1, <2>3, <2>4
<1> HIDE DEF G
<1>4. P \in G
  BY <1>1, <1>2, <1>3, Induct
<1> QED BY <1>0, <1>1, <1>4 DEF G, ReachedAt

(* The last literal, when no star follows it.                              *)
NoStarAtEnd(p, ls, leading) == p.literals = ls /\ p.leadingStar = leading /\ p.trailingStar = FALSE

(* The last literal, without a star after it, has to stand at the value's  *)
(* end.                                                                    *)
LEMMA LastOK ==
  ASSUME NEW B, NEW value \in Seq(B), NEW A, NEW ls \in Seq(Seq(A)), Len(ls) >= 1,
         NEW leading \in BOOLEAN, NEW x \in -1 .. Len(value), Len(ls) = 1 => x = 0,
         NEW p, NoStarAtEnd(p, ls, leading)
  PROVE  LET n == Len(ls)
             end == Advance(p, value, x, n)
         IN  (end # Fails /\ end = Len(value)) <=>
               Len(value) \in Ends(Occurs(value, ls[n], x, n = 1 /\ ~leading), ls[n])
<1>z. p.literals = ls /\ p.leadingStar = leading /\ p.trailingStar = FALSE
  BY DEF NoStarAtEnd
<1> USE <1>z
<1> DEFINE n == Len(ls)
           V == Len(value)
           l == ls[n]
           end == Advance(p, value, x, n)
           occurs == Occurs(value, l, x, n = 1 /\ ~leading)
<1> SUFFICES (end # Fails /\ end = V) <=> V \in Ends(occurs, l)
  OBVIOUS
<1>1. n \in Nat /\ V \in Nat /\ l \in Seq(A) /\ Len(l) \in Nat /\ V # -1 /\ x \in Int
  <2> DEFINE S == Seq(A)
  <2>1. n \in Nat /\ V \in Nat /\ V # -1 /\ x \in Int
    BY SMT
  <2>2. ls \in Seq(S)
    OBVIOUS
  <2>3. l \in S
    <3> HIDE DEF S
    <3> QED BY SMT, <2>2
  <2>4. l \in Seq(A)
    BY <2>3
  <2> HIDE DEF l
  <2>5. Len(l) \in Nat
    BY SMT, <2>4
  <2> QED BY <2>1, <2>4, <2>5
<1>2. \A k : k \in occurs <=>
               k \in 0 .. V /\ x # Fails /\ x <= k /\ HasAt(value, k, l) /\ (n = 1 /\ ~leading => k = 0)
  BY DEF Occurs
<1>3. V \in Ends(occurs, l) <=> \E k \in occurs : V = k + Len(l)
  BY DEF Ends
<1> HIDE DEF l, occurs
<1>4. CASE x = Fails
  <2>1. end = Fails
    BY <1>4 DEF Advance
  <2> QED BY <1>2, <1>3, <1>4, <2>1
<1>5. CASE x # Fails /\ n = 1 /\ ~leading
  <2>0. ~(n > 1)
    BY SMT, <1>1, <1>5
  <2>1. end = IF HasAt(value, 0, l) THEN Len(l) ELSE Fails
    BY <1>5, <2>0 DEF Advance, l
  <2>2. x = 0 /\ 0 \in 0 .. V /\ 0 <= 0 /\ 0 + Len(l) = Len(l)
    BY SMT, <1>1, <1>5
  <2>3. \A k : k \in occurs <=> k = 0 /\ HasAt(value, 0, l)
    BY <1>2, <1>5, <2>2
  <2>4. V # Fails
    BY <1>1 DEF Fails
  <2> QED BY <1>3, <2>1, <2>2, <2>3, <2>4
<1>6. CASE x # Fails /\ ~(n = 1 /\ ~leading)
  <2>0. n # 1 => n > 1
    <3>1. n \in Nat /\ n >= 1
      BY <1>1
    <3> HIDE DEF n
    <3> QED BY ONLY SMT, <3>1
  <2>1. n > 1 \/ leading
    BY <1>6, <2>0
  <2>2. end = IF EndsWith(value, x, l) THEN V ELSE Fails
    BY <1>6, <2>1 DEF Advance, l
  <2> DEFINE start == V - Len(l)
  <2>3. EndsWith(value, x, l) <=> start >= x /\ HasAt(value, start, l)
    BY DEF EndsWith
  <2>4. V # Fails
    BY <1>1 DEF Fails
  <2>5. ASSUME NEW k \in 0 .. V, V = k + Len(l) PROVE k = start
    BY SMT, <1>1, <2>5
  <2>6. V = start + Len(l) /\ (start >= 0 => start \in 0 .. V) /\ (start >= x <=> x <= start)
    BY SMT, <1>1
  <2> HIDE DEF start
  <2>7. HasAt(value, start, l) => start >= 0
    BY DEF HasAt
  <2>8. (\E k \in occurs : V = k + Len(l)) <=> x <= start /\ HasAt(value, start, l)
    BY <1>2, <1>6, <2>5, <2>6, <2>7
  <2> QED BY <1>3, <2>2, <2>3, <2>4, <2>6, <2>8
<1> QED BY <1>4, <1>5, <1>6

(* Before the last literal, a pattern with a star at its end and one       *)
(* without search alike.                                                   *)
LEMMA SearchAlike ==
  ASSUME NEW B, NEW value \in Seq(B), NEW A, NEW ls \in Seq(Seq(A)), Len(ls) >= 1, NEW leading,
         NEW p, NoStarAtEnd(p, ls, leading),
         NEW after, NEW find, Searches(after, p, value), Searches(find, Open(ls, leading), value)
  PROVE  after[Len(ls) - 1] = find[Len(ls) - 1]
<1>z. p.literals = ls /\ p.leadingStar = leading /\ p.trailingStar = FALSE
  BY DEF NoStarAtEnd
<1> USE <1>z
<1> DEFINE n == Len(ls)
           N == n - 1
           G == {k \in 0 .. N : after[k] = find[k]}
<1>1. n \in Nat /\ N \in Nat /\ 0 \in 0 .. N /\ N \in 0 .. N
  BY SMT
<1>2. 0 \in G
  BY <1>1 DEF Searches
<1>3. ASSUME NEW k \in 1 .. N, k - 1 \in G PROVE k \in G
  <2> DEFINE x == after[k - 1]
  <2>1. k \in 0 .. N /\ k \in 1 .. n /\ k # n
    BY SMT, <1>1
  <2>2. x = find[k - 1]
    BY <1>3
  <2>3. after[k] = Advance(p, value, x, k)
    BY <2>1 DEF Searches
  <2>4. find[k] = Advance(Open(ls, leading), value, x, k)
    BY <2>1, <2>2 DEF Searches, Open
  <2> HIDE DEF x
  <2>5. Advance(p, value, x, k) = Advance(Open(ls, leading), value, x, k)
    BY <2>1 DEF Advance, Open
  <2> QED BY <2>1, <2>3, <2>4, <2>5
<1> HIDE DEF G
<1>4. N \in G
  BY <1>1, <1>2, <1>3, Induct
<1> QED BY <1>4 DEF G

(* matches does what a pattern means: the leftmost occurrence of each      *)
(* literal leaves the most for the next ones.                              *)
LEMMA GlobOK ==
  ASSUME NEW A, NEW pattern \in Seq(A), pattern # <<>>, NEW B, NEW value \in Seq(B)
  PROVE  matches(compileModelPattern(pattern), value) <=> Glob(pattern, value)
<1> DEFINE P == Len(pattern)
           V == Len(value)
           p == compileModelPattern(pattern)
           ls == Literals(pattern)
           leading == pattern[1] = Star
           trailing == pattern[P] = Star
           q == Open(ls, leading)
           n == Len(ls)
<1>1. P \in Nat /\ P >= 1 /\ P \in 1 .. P /\ P \in 0 .. P /\ 1 \in 1 .. P /\ Head(pattern) = pattern[1] /\ V \in Nat /\ V # -1
  BY SMT
<1>2. p.literals = ls /\ p.leadingStar = leading /\ p.trailingStar = trailing
  BY <1>1 DEF compileModelPattern, Last
<1>3. q.literals = ls /\ q.trailingStar = TRUE
  BY DEF Open
<1>4. PICK f \in [0 .. P -> Seq(Seq(A))] :
        f[0] = <<>> /\ (\A i \in 1 .. P : f[i] = PartsNext(pattern, i, f[i - 1])) /\ ls = f[P]
  BY PartsOK
<1>5. Parts(f, pattern) /\ ls \in Seq(Seq(A)) /\ leading \in BOOLEAN
  BY <1>1, <1>4 DEF Parts
<1>6. PICK reach \in [0 .. P -> SUBSET (0 .. V)] :
        reach[0] = {0} /\ (\A i \in 1 .. P : reach[i] = ReachNext(pattern, value, i, reach[i - 1]))
        /\ (Glob(pattern, value) <=> V \in reach[P])
  BY ReachOK
<1>7. trailing => p = q
  BY <1>1 DEF compileModelPattern, Last, Open
<1> HIDE DEF p, q, ls
<1>8. PICK find \in [0 .. n -> -1 .. V] :
        /\ Searches(find, q, value)
        /\ matches(q, value) <=> ls = <<>> \/ (find[n] # Fails /\ (q.trailingStar \/ find[n] = V))
  <2>1. q.literals \in Seq(Seq(A))
    BY <1>3, <1>5
  <2>2. \E find \in [0 .. Len(q.literals) -> -1 .. Len(value)] :
          /\ Searches(find, q, value)
          /\ LET end == find[Len(q.literals)]
             IN  matches(q, value) <=>
                   q.literals = <<>> \/ (end # Fails /\ (q.trailingStar \/ end = Len(value)))
    BY <2>1, MatchesOK
  <2> QED BY <1>3, <2>2
<1>9. find[0] = 0 /\ \A k \in 1 .. n : find[k] = Advance(Open(ls, leading), value, find[k - 1], k)
  BY <1>3, <1>8 DEF Searches, q
<1>10. Compiled(A, B, pattern, value, f, ls, leading, find)
  BY <1>4, <1>5, <1>8, <1>9 DEF Compiled
<1>11. Reached(pattern, value, P, reach[P], ls, find, leading)
  <2> DEFINE R == reach
  <2>1. R[0] = {0} /\ \A i \in 1 .. P : R[i] = ReachNext(pattern, value, i, R[i - 1])
    BY <1>6
  <2> HIDE DEF leading
  <2> QED BY <1>1, <1>10, <2>1, ReachedOK
<1>12. n \in Nat /\ n \in 0 .. n
  BY SMT, <1>5
<1>13. CASE trailing
  <2> DEFINE end == find[n]
  <2>1. reach[P] = From(value, end)
    BY <1>11, <1>13 DEF Reached
  <2>2. end \in -1 .. V
    BY <1>8, <1>12
  <2>3. ls = <<>> => n = 0 /\ end = 0 /\ 0 # Fails
    <3>1. Len(<<>>) = 0 /\ 0 # Fails
      BY SMT DEF Fails
    <3> QED BY <1>9, <3>1
  <2> HIDE DEF end
  <2>4. V \in From(value, end) <=> end # Fails
    <3>1. V \in 0 .. V /\ end <= V
      BY SMT, <1>1, <2>2
    <3> QED BY <3>1 DEF From
  <2>5. matches(q, value) <=> ls = <<>> \/ end # Fails
    BY <1>3, <1>8 DEF end
  <2>6. p = q
    BY <1>7, <1>13
  <2> QED BY <1>6, <2>1, <2>3, <2>4, <2>5, <2>6 DEF p
<1>14. CASE ~trailing
  <2>1. n >= 1
    BY <1>1, <1>4, <1>5, <1>14, PartsShape
  <2>2. p.trailingStar = FALSE /\ ls # <<>> /\ n - 1 \in 0 .. n /\ n \in 1 .. n
    <3>1. Len(<<>>) = 0 /\ ~(0 >= 1)
      BY SMT
    <3>2. n - 1 \in 0 .. n /\ n \in 1 .. n
      <4> HIDE DEF n
      <4> QED BY SMT, <1>12, <2>1
    <3> QED BY <1>2, <1>14, <2>1, <3>1, <3>2
  <2>3. PICK after \in [0 .. n -> -1 .. V] :
          /\ Searches(after, p, value)
          /\ matches(p, value) <=> ls = <<>> \/ (after[n] # Fails /\ (p.trailingStar \/ after[n] = V))
    <3>1. p.literals \in Seq(Seq(A))
      BY <1>2, <1>5
    <3>2. \E after \in [0 .. Len(p.literals) -> -1 .. Len(value)] :
            /\ Searches(after, p, value)
            /\ LET end == after[Len(p.literals)]
               IN  matches(p, value) <=>
                     p.literals = <<>> \/ (end # Fails /\ (p.trailingStar \/ end = Len(value)))
      BY <3>1, MatchesOK
    <3> QED BY <1>2, <3>2
  <2> DEFINE x == find[n - 1]
             end == after[n]
  <2>10. NoStarAtEnd(p, ls, leading)
    BY <1>2, <2>2 DEF NoStarAtEnd
  <2>4. after[n - 1] = x
    <3> HIDE DEF leading
    <3>1. Searches(find, Open(ls, leading), value)
      BY <1>8 DEF q
    <3>2. Searches(after, p, value)
      BY <2>3
    <3> QED BY ONLY SMT, <1>5, <2>1, <2>10, <3>1, <3>2, SearchAlike DEF n, x
  <2>5. end = Advance(p, value, x, n)
    BY <1>2, <2>2, <2>3, <2>4 DEF Searches
  <2>6. x \in -1 .. V /\ (n = 1 => x = 0)
    <3>1. n = 1 => n - 1 = 0
      BY SMT
    <3> QED BY <1>8, <1>9, <2>2, <3>1
  <2>7. reach[P] = Ends(Occurs(value, ls[n], x, n = 1 /\ ~leading), ls[n])
    BY <1>11, <1>14 DEF Reached
  <2> HIDE DEF x, end
  <2>8. (end # Fails /\ end = V) <=> V \in Ends(Occurs(value, ls[n], x, n = 1 /\ ~leading), ls[n])
    <3> DEFINE e == Advance(p, value, x, n)
    <3>1. (e # Fails /\ e = V) <=> V \in Ends(Occurs(value, ls[n], x, n = 1 /\ ~leading), ls[n])
      <4> HIDE DEF leading
      <4> QED BY ONLY Zenon, <1>5, <2>1, <2>6, <2>10, LastOK DEF n, e, V
    <3> QED BY <2>5, <3>1
  <2>9. matches(p, value) <=> end # Fails /\ end = V
    BY <2>2, <2>3 DEF end
  <2> QED BY <1>6, <2>7, <2>8, <2>9 DEF p
<1> QED BY <1>13, <1>14

-----------------------------------------------------------------------------
(* Plans *)

(* The rule a request matches is the first one that accepts it.            *)
LEMMA FirstOK ==
  ASSUME NEW rules, IsSeq(rules), NEW tag, NEW model, IsSeq(model),
         \A i \in DOMAIN rules : \A p \in rules[i].match : IsSeq(p) /\ p # <<>>
  PROVE  LET accepting == {i \in DOMAIN rules : Accepts(rules[i], tag, model)}
         IN  matchRule(rules, tag, model) = IF accepting = {} THEN 0 ELSE Min(accepting)
<1> DEFINE accepting == {i \in DOMAIN rules : Accepts(rules[i], tag, model)}
           I == {i \in 1 .. Len(rules) : tag \in rules[i].from /\ matchesModel(rules[i], model)}
<1>1. DOMAIN rules = 1 .. Len(rules)
  BY SeqOK DEF IsSeq
<1>2. matchRule(rules, tag, model) = IF I # {} THEN Min(I) ELSE 0
  BY DEF matchRule, SelectInSeq
<1>3. ASSUME NEW p, IsSeq(p), p # <<>>
      PROVE  matches(compileModelPattern(p), model) <=> Glob(p, model)
  BY <1>3, GlobOK DEF IsSeq
<1>4. ASSUME NEW i \in DOMAIN rules
      PROVE  Accepts(rules[i], tag, model) <=> tag \in rules[i].from /\ matchesModel(rules[i], model)
  <2>1. \A p \in rules[i].match : matches(compileModelPattern(p), model) <=> Glob(p, model)
    BY <1>3
  <2> QED BY <2>1 DEF Accepts, matchesModel
<1>5. I = accepting
  BY <1>1, <1>4
<1> HIDE DEF I, accepting
<1>6. matchRule(rules, tag, model) = IF accepting = {} THEN 0 ELSE Min(accepting)
  BY <1>2, <1>5
<1> QED BY <1>6 DEF accepting

(* Places in a list have a last one.                                       *)
LEMMA MaxOK ==
  ASSUME NEW n \in Nat, NEW I \in SUBSET (1 .. n), I # {}
  PROVE  Max(I) \in I
<1> DEFINE T == {j \in 0 .. n : n - j \in I}
<1>1. T \in SUBSET Nat /\ T # {}
  <2>1. PICK x \in I : TRUE
    OBVIOUS
  <2>2. x \in 1 .. n
    BY <2>1
  <2>3. n - x \in 0 .. n /\ n - (n - x) = x
    BY SMT, <2>2
  <2>4. n - x \in T
    BY <2>1, <2>3
  <2>5. T \in SUBSET Nat
    BY SMT
  <2> QED BY <2>4, <2>5
<1>2. PICK m \in T : \A y \in T : m <= y
  <2> HIDE DEF T
  <2> QED BY <1>1, LeastNumber
<1>3. m \in 0 .. n /\ n - m \in I
  BY <1>2
<1>4. ASSUME NEW y \in I PROVE n - m >= y
  <2>1. y \in 1 .. n
    BY <1>4
  <2>2. n - y \in 0 .. n /\ n - (n - y) = y
    BY SMT, <2>1
  <2>3. n - y \in T
    BY <1>4, <2>2
  <2>4. m <= n - y
    BY <1>2, <2>3
  <2> QED BY SMT, <1>3, <2>1, <2>4
<1> QED BY <1>3, <1>4 DEF Max

(* The models of an enabled outbound of the configuration.                 *)
LEMMA ModelsOfOK ==
  ASSUME routerCfg \in RouterConfigs, NEW tags, NEW name \in Named(routerCfg.outbounds, tags)
  PROVE  ModelsOK(ModelsOf(name))
<1> DEFINE os == routerCfg.outbounds
           I == {i \in DOMAIN os : os[i].enabled /\ os[i].name = name}
           k == Max(I)
<1>1. Validated(routerCfg)
  BY RouterAssumption
<1>2. DOMAIN os = 1 .. Len(os) /\ Len(os) \in Nat
  BY RuleOK, SeqOK DEF IsSeq
<1>4. I # {} /\ I \in SUBSET (1 .. Len(os))
  BY <1>2 DEF Named, ToSet
<1>6. k \in I
  <2> HIDE DEF I
  <2> QED BY <1>2, <1>4, MaxOK
<1>7. os[k] \in ToSet(os)
  BY <1>2, <1>6 DEF ToSet
<1>8. ModelsOf(name) = os[k].models
  BY DEF ModelsOf, modelsByTarget
<1> HIDE DEF k
<1> DEFINE models == os[k].models
<1>9. IsSeq(models) /\ \A m \in ToSet(models) : IsSeq(m.aliases)
  BY <1>1, <1>7 DEF Validated, IsSeq
<1>10. \A i \in DOMAIN models : models[i] \in ToSet(models)
  BY DEF ToSet
<1> HIDE DEF models
<1>11. ModelsOK(models)
  BY <1>9, <1>10 DEF ModelsOK
<1> QED BY <1>8, <1>11 DEF models

(* What a step is to carry.                                                *)
Sends(models, routed, sent) ==
  /\ \A j \in DOMAIN models : routed \in NamesOfModel(models[j]) => sent = <<models[j].name, FALSE>>
  /\ sent[2] = (models # <<>> /\ ~\E j \in DOMAIN models : routed \in NamesOfModel(models[j]))

(* A plan made of the first rule that accepts and of the outbounds it      *)
(* names is as configured.                                                 *)
LEMMA OutcomeOK ==
  ASSUME routerCfg \in RouterConfigs, routerCfg' = routerCfg, NEW tag, NEW model \in Models,
         NEW k, k = matchRule(routerCfg.rules, tag, model),
         NEW steps, IF k = 0 THEN steps = <<>> ELSE Wanted(steps, routerCfg.outbounds, routerCfg.rules[k]),
         plan' = Outcome(tag, model, k, steps)
  PROVE  PlanAsConfigured'
<1> DEFINE os == routerCfg.outbounds
           rules == routerCfg.rules
           routed == resolveModel(rules[k], model)
<1>1. /\ plan'.tag = tag /\ plan'.model = model /\ plan'.rule = k /\ plan'.steps = steps
      /\ plan'.sent = [i \in DOMAIN steps |-> resolveOutboundModel(ModelsOf(steps[i]), routed)]
  BY DEF Outcome
<1>2. FirstGlobMatch'
  <2>1. Validated(routerCfg) /\ IsSeq(model)
    BY RouterAssumption DEF IsSeq
  <2>2. \A i \in DOMAIN rules : \A p \in rules[i].match : IsSeq(p) /\ p # <<>>
    BY <2>1 DEF Validated, IsSeq, ToSet
  <2>3. IsSeq(rules)
    BY RuleOK
  <2>4. LET accepting == {i \in DOMAIN rules : Accepts(rules[i], tag, model)}
        IN  k = IF accepting = {} THEN 0 ELSE Min(accepting)
    <3> HIDE DEF rules
    <3>1. k = matchRule(rules, tag, model)
      BY DEF rules
    <3> QED BY <2>1, <2>2, <2>3, <3>1, FirstOK
  <2> QED BY <1>1, <2>4 DEF FirstGlobMatch
<1>3. PlanReachesAll'
  <2>1. ASSUME k # 0
        PROVE  /\ ToSet(steps) = Named(os, ToSet(rules[k].to))
               /\ rules[k].strategy = "weighted_round_robin" => Cardinality(ToSet(steps)) = Len(steps)
    BY <2>1 DEF Wanted
  <2> QED BY <1>1, <2>1 DEF PlanReachesAll, Named
<1>4. ASSUME NEW i \in DOMAIN steps, validateOutboundModels(ModelsOf(steps[i]))
      PROVE  Sends(ModelsOf(steps[i]), routed, plan'.sent[i])
  <2> DEFINE models == ModelsOf(steps[i])
  <2>1. ToSet(steps) = Named(os, ToSet(rules[k].to))
    <3>1. k # 0
      <4>1. DOMAIN <<>> = {}
        BY SMT
      <4> QED BY <1>4, <4>1
    <3> QED BY <3>1 DEF Wanted
  <2>2. steps[i] \in Named(os, ToSet(rules[k].to))
    <3>1. steps[i] \in ToSet(steps)
      BY <1>4 DEF ToSet
    <3> QED BY <2>1, <3>1
  <2>3. ModelsOK(models)
    BY <2>2, ModelsOfOK
  <2>4. plan'.sent[i] = resolveOutboundModel(models, routed)
    BY <1>1
  <2> HIDE DEF models, routed
  <2>5. Sends(models, routed, resolveOutboundModel(models, routed))
    BY <1>4, <2>3, AliasOK DEF models, Sends
  <2> QED BY <2>4, <2>5 DEF models
<1>5. AliasesResolve'
  <2> DEFINE models(name) == modelsByTarget(routerCfg.outbounds, name)
  <2>1. \A name : ModelsOf(name) = models(name)
    BY DEF ModelsOf
  <2>2. \A i \in DOMAIN steps :
          validateOutboundModels(models(steps[i])) => Sends(models(steps[i]), routed, plan'.sent[i])
    <3> HIDE DEF models, routed
    <3> QED BY <1>4, <2>1
  <2>3. AliasesResolve' <=>
          (plan' # NoPlan =>
             \A i \in DOMAIN plan'.steps :
               validateOutboundModels(modelsByTarget(routerCfg'.outbounds, plan'.steps[i])) =>
                 Sends(modelsByTarget(routerCfg'.outbounds, plan'.steps[i]),
                       resolveModel(routerCfg'.rules[plan'.rule], plan'.model), plan'.sent[i]))
    BY DEF AliasesResolve, ModelsOf, Sends
  <2>4. resolveModel(routerCfg'.rules[plan'.rule], plan'.model) = routed
    BY <1>1
  <2> HIDE DEF routed
  <2> QED BY <1>1, <2>2, <2>3, <2>4
<1> QED BY <1>2, <1>3, <1>5 DEF PlanAsConfigured

(* The counters are numbers, whatever names the rules have.                *)
CountersInv ==
  /\ routerCfg \in RouterConfigs /\ DOMAIN roundRobin = RuleNames
  /\ \A n \in RuleNames : roundRobin[n] \in Nat

(* A remainder is an index.                                                *)
LEMMA RemainderOK ==
  ASSUME NEW a \in Nat, NEW n \in Nat \ {0}
  PROVE  a % n \in 0 .. n - 1 /\ (a + 1) % n \in Nat
BY SMT

(* A plan is as configured and keeps the counters.                         *)
LEMMA PlanGood ==
  ASSUME CountersInv, NEW tag, NEW model \in Models, Plan(tag, model)
  PROVE  CountersInv' /\ PlanAsConfigured'
<1> DEFINE os == routerCfg.outbounds
           k == matchRule(routerCfg.rules, tag, model)
           rule == routerCfg.rules[k]
           size == Len(Cycle(os, rule))
           index == IF rule.strategy = "failover" THEN 0 ELSE roundRobin[rule.name] % size
           steps == Steps(os, rule, index)
<1>1. /\ k # 0 /\ routerCfg' = routerCfg /\ resolvedSet(os, rule) # <<>>
      /\ IF rule.strategy = "failover" THEN roundRobin' = roundRobin
         ELSE nextRoundRobinIndex(rule.name, size)
      /\ plan' = Outcome(tag, model, k, steps)
  BY DEF Plan
<1>2. routerCfg \in RouterConfigs /\ IsSeq(routerCfg.rules) /\ IsSeq(os)
  BY RuleOK DEF CountersInv
<1>3. k = matchRule(routerCfg.rules, tag, model) /\ k \in DOMAIN routerCfg.rules
  BY <1>1, <1>2, MatchOK
<1> HIDE DEF k
<1>4. TargetsOK(rule) /\ rule.name \in RuleNames
  BY <1>2, <1>3, RuleOK
<1> HIDE DEF rule
<1>5. /\ size \in Nat \ {0}
      /\ \A x \in 0 .. size - 1 : Wanted(Steps(os, rule, x), os, rule)
  <2> HIDE DEF os
  <2> QED BY <1>1, <1>2, <1>4, StepsRange
<1> HIDE DEF size
<1> DEFINE at == roundRobin[rule.name]
<1>6. at \in Nat
  BY <1>4 DEF CountersInv
<1>7. at % size \in 0 .. size - 1 /\ (at + 1) % size \in Nat
  <2> HIDE DEF at
  <2> QED BY <1>5, <1>6, RemainderOK
<1>8. index \in 0 .. size - 1
  <2>1. 0 \in 0 .. size - 1
    BY SMT, <1>5
  <2> QED BY <1>7, <2>1
<1> HIDE DEF index
<1>9. Wanted(steps, os, rule)
  BY <1>5, <1>8
<1>10. PlanAsConfigured'
  <2> HIDE DEF steps
  <2>1. IF k = 0 THEN steps = <<>> ELSE Wanted(steps, routerCfg.outbounds, routerCfg.rules[k])
    BY <1>1, <1>9 DEF rule
  <2> QED BY <1>1, <1>2, <1>3, <2>1, OutcomeOK
<1>11. RuleNames' = RuleNames
  BY <1>1 DEF RuleNames
<1>12. DOMAIN roundRobin' = RuleNames /\ \A n \in RuleNames : roundRobin'[n] \in Nat
  <2>1. CASE rule.strategy = "failover"
    BY <1>1, <2>1 DEF CountersInv
  <2>2. CASE rule.strategy # "failover"
    <3>1. roundRobin' = [roundRobin EXCEPT ![rule.name] = (at + 1) % size]
      BY <1>1, <2>2 DEF nextRoundRobinIndex
    <3> DEFINE y == (at + 1) % size
    <3> HIDE DEF y
    <3>2. roundRobin' = [roundRobin EXCEPT ![rule.name] = y] /\ y \in Nat
      BY <1>7, <3>1 DEF y
    <3> QED BY <3>2 DEF CountersInv
  <2> QED BY <2>1, <2>2
<1> QED BY <1>1, <1>2, <1>10, <1>11, <1>12 DEF CountersInv

(* A dry run is as configured.                                             *)
LEMMA DryRunGood ==
  ASSUME CountersInv, NEW tag, NEW model \in Models, PlanDryRun(tag, model)
  PROVE  PlanAsConfigured'
<1> DEFINE os == routerCfg.outbounds
           k == matchRule(routerCfg.rules, tag, model)
           rule == routerCfg.rules[k]
           size == Len(Cycle(os, rule))
           steps == Steps(os, rule, 0)
<1>1. /\ k # 0 /\ routerCfg' = routerCfg /\ resolvedSet(os, rule) # <<>>
      /\ plan' = Outcome(tag, model, k, steps)
  BY DEF PlanDryRun
<1>2. routerCfg \in RouterConfigs /\ IsSeq(routerCfg.rules) /\ IsSeq(os)
  BY RuleOK DEF CountersInv
<1>3. k = matchRule(routerCfg.rules, tag, model) /\ k \in DOMAIN routerCfg.rules
  BY <1>1, <1>2, MatchOK
<1> HIDE DEF k
<1>4. TargetsOK(rule)
  BY <1>2, <1>3, RuleOK
<1> HIDE DEF rule
<1>5. /\ size \in Nat \ {0}
      /\ \A x \in 0 .. size - 1 : Wanted(Steps(os, rule, x), os, rule)
  <2> HIDE DEF os
  <2> QED BY <1>1, <1>2, <1>4, StepsRange
<1> HIDE DEF size
<1>6. 0 \in 0 .. size - 1
  BY SMT, <1>5
<1>7. Wanted(steps, os, rule)
  BY <1>5, <1>6
<1> HIDE DEF steps
<1>8. IF k = 0 THEN steps = <<>> ELSE Wanted(steps, routerCfg.outbounds, routerCfg.rules[k])
  BY <1>1, <1>7 DEF rule
<1> QED BY <1>1, <1>2, <1>3, <1>8, OutcomeOK

(* A request that gets no plan should get none.                            *)
LEMMA FailsGood ==
  ASSUME CountersInv, NEW tag, NEW model \in Models, PlanFails(tag, model)
  PROVE  PlanAsConfigured'
<1> DEFINE os == routerCfg.outbounds
           k == matchRule(routerCfg.rules, tag, model)
           rule == routerCfg.rules[k]
<1>1. /\ IF k = 0 THEN TRUE ELSE resolvedSet(os, rule) = <<>>
      /\ routerCfg' = routerCfg /\ plan' = Outcome(tag, model, k, <<>>)
  BY DEF PlanFails
<1>2. routerCfg \in RouterConfigs /\ IsSeq(routerCfg.rules) /\ IsSeq(os)
  BY RuleOK DEF CountersInv
<1>3. k = matchRule(routerCfg.rules, tag, model)
  OBVIOUS
<1>4. ASSUME k # 0 PROVE Wanted(<<>>, os, rule)
  <2>1. k \in DOMAIN routerCfg.rules
    BY <1>2, <1>4, MatchOK
  <2> HIDE DEF k
  <2>2. TargetsOK(rule) /\ resolvedSet(os, rule) = <<>>
    BY <1>1, <1>2, <1>4, <2>1, RuleOK
  <2> HIDE DEF rule, os
  <2>3. ToSet(resolvedSet(os, rule)) = Named(os, ToSet(rule.to)) /\ <<>> \in Seq(NamesOf(os))
    BY <1>2, <2>2, CycleRange
  <2>4. ToSet(<<>>) = {} /\ Len(<<>>) = 0
    BY SMT DEF ToSet
  <2>5. Cardinality({}) = 0
    BY FS_EmptySet
  <2> QED BY <2>2, <2>3, <2>4, <2>5 DEF Wanted
<1> HIDE DEF k
<1>5. IF k = 0 THEN <<>> = <<>> ELSE Wanted(<<>>, routerCfg.outbounds, routerCfg.rules[k])
  BY <1>4
<1> QED BY <1>1, <1>2, <1>3, <1>5, OutcomeOK

(* Whatever the configuration, and whatever requests came before, a plan   *)
(* is the one the configuration says: the first rule whose patterns, read  *)
(* as globs, accept the model; every enabled outbound of its tags; and for *)
(* each the one declared model the name stands for (router.go Plan).       *)
THEOREM PlanAsConfiguredCorrect == RoutingSpec => []PlanAsConfigured
<1> DEFINE Inv == CountersInv /\ PlanAsConfigured
<1>1. RoutingInit(RouterConfigs) => Inv
  <2> SUFFICES ASSUME RoutingInit(RouterConfigs) PROVE Inv
    OBVIOUS
  <2>1. CountersInv
    <3>1. 0 \in Nat
      BY SMT
    <3> QED BY <3>1 DEF RoutingInit, CountersInv
  <2>2. PlanAsConfigured
    BY DEF RoutingInit, PlanAsConfigured, FirstGlobMatch, PlanReachesAll, AliasesResolve
  <2> QED BY <2>1, <2>2
<1>2. Inv /\ [RoutingNext]_routerVars => Inv'
  <2> SUFFICES ASSUME Inv, [RoutingNext]_routerVars PROVE Inv'
    OBVIOUS
  <2>1. ASSUME UNCHANGED <<routerCfg, roundRobin>> PROVE CountersInv'
    BY <2>1 DEF CountersInv, RuleNames
  <2>2. ASSUME NEW tag, NEW model \in Models, Plan(tag, model) PROVE Inv'
    BY <2>2, PlanGood
  <2>3. ASSUME NEW tag, NEW model \in Models, PlanDryRun(tag, model) PROVE Inv'
    BY <2>1, <2>3, DryRunGood DEF PlanDryRun
  <2>4. ASSUME NEW tag, NEW model \in Models, PlanFails(tag, model) PROVE Inv'
    BY <2>1, <2>4, FailsGood DEF PlanFails
  <2>5. CASE UNCHANGED routerVars
    <3>1. PlanAsConfigured'
      <4>1. routerCfg' = routerCfg /\ plan' = plan
        BY <2>5 DEF routerVars
      <4>2. FirstGlobMatch'
        BY <4>1 DEF PlanAsConfigured, FirstGlobMatch
      <4>3. PlanReachesAll'
        BY <4>1 DEF PlanAsConfigured, PlanReachesAll
      <4>4. AliasesResolve'
        <5> DEFINE Good(cfg, pl) ==
                     pl # NoPlan =>
                       \A i \in DOMAIN pl.steps :
                         validateOutboundModels(modelsByTarget(cfg.outbounds, pl.steps[i])) =>
                           Sends(modelsByTarget(cfg.outbounds, pl.steps[i]),
                                 resolveModel(cfg.rules[pl.rule], pl.model), pl.sent[i])
        <5>1. AliasesResolve <=> Good(routerCfg, plan)
          BY ONLY Zenon DEF AliasesResolve, ModelsOf, Sends
        <5>2. AliasesResolve' <=> Good(routerCfg', plan')
          BY ONLY Zenon DEF AliasesResolve, ModelsOf, Sends
        <5> HIDE DEF Good
        <5> QED BY <4>1, <5>1, <5>2 DEF PlanAsConfigured
      <4> QED BY <4>2, <4>3, <4>4 DEF PlanAsConfigured
    <3> QED BY <2>1, <2>5, <3>1 DEF routerVars
  <2> HIDE DEF Inv
  <2> QED BY <2>2, <2>3, <2>4, <2>5 DEF RoutingNext
<1> QED BY <1>1, <1>2, PTL DEF RoutingSpec
=============================================================================
