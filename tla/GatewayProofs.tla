---------------------------- MODULE GatewayProofs ----------------------------
(***************************************************************************)
(* Proofs about the control plane: Reload.tla and Gateway.tla, for any     *)
(* number of listeners, operations, faults, crashes and requests.          *)
(*                                                                         *)
(* First what the resource operations do to a configuration, then the      *)
(* inductive invariant of the manager, then the client quota.              *)
(***************************************************************************)
EXTENDS Gateway, FiniteSetTheorems, WellFoundedInduction, TLAPS

(* Zenon finds the proof of a leaf that does not name a prover.            *)
USE Zenon

-----------------------------------------------------------------------------
(* Sets of numbers *)

(* A set of numbers that is not empty has a least element. *)
LEMMA Least ==
  ASSUME NEW S \in SUBSET Nat, S # {}
  PROVE  \E x \in S : \A y \in S : x <= y
<1>1. PICK R : R = {ss \in Nat \X Nat : ss[1] < ss[2]}
  OBVIOUS
<1>2. IsWellFoundedOn(R, Nat)
  BY <1>1, NatLessThanWellFounded DEF OpToRel
<1>3. PICK x \in S : \A y \in S : ~(<<y, x>> \in R)
  BY <1>2, WFMin
<1>4. \A y \in S : <<y, x>> \in Nat \X Nat /\ <<y, x>>[1] = y /\ <<y, x>>[2] = x
  OBVIOUS
<1>5. \A y \in S : ~(y < x)
  BY <1>1, <1>3, <1>4
<1> QED
  BY SMT, <1>5

(* ... which Min chooses. *)
LEMMA MinIsLeast ==
  ASSUME NEW S \in SUBSET Nat, S # {}
  PROVE  Min(S) \in S /\ \A y \in S : Min(S) <= y
<1>1. \E x \in S : \A y \in S : x <= y
  BY Least
<1> QED
  BY <1>1 DEF Min

(* Counting the members of a set of positions up to each of them numbers   *)
(* the set: a position has one rank, and every rank up to the size of the  *)
(* set is that of a position.                                              *)
LEMMA Ranks ==
  ASSUME NEW n \in Nat, NEW keep \in SUBSET (1 .. n)
  PROVE  LET upTo(i) == {m \in keep : m <= i}
         IN  /\ Cardinality(keep) \in Nat
             /\ \A i \in keep : Cardinality(upTo(i)) \in 1 .. Cardinality(keep)
             /\ \A i, j \in keep : Cardinality(upTo(i)) = Cardinality(upTo(j)) => i = j
             /\ \A k \in 1 .. Cardinality(keep) : \E i \in keep : Cardinality(upTo(i)) = k
<1> DEFINE upTo(i) == {m \in keep : m <= i}
           size == Cardinality(keep)
           rank == [i \in keep |-> Cardinality(upTo(i))]
<1>0. 1 \in Int /\ n \in Int
  BY SMT
<1>1. IsFiniteSet(keep) /\ size \in Nat
  BY <1>0, FS_Interval, FS_Subset, FS_CardinalityType
<1>2. \A i \in keep : IsFiniteSet(upTo(i)) /\ Cardinality(upTo(i)) \in Nat
                      /\ Cardinality(upTo(i)) <= size
  <2> TAKE i \in keep
  <2>1. upTo(i) \in SUBSET keep
    OBVIOUS
  <2> QED
    BY <1>1, <2>1, FS_Subset, FS_CardinalityType
<1>3. \A i \in keep : Cardinality(upTo(i)) # 0
  <2> TAKE i \in keep
  <2>1. i \in upTo(i)
    BY SMT
  <2> QED
    BY <1>2, <2>1, FS_EmptySet
<1>4. \A i, j \in keep : i < j => Cardinality(upTo(i)) # Cardinality(upTo(j))
  <2> TAKE i, j \in keep
  <2>0. \A k \in keep : k \in Nat
    BY SMT
  <2>1. i < j => upTo(i) \in SUBSET upTo(j) /\ j \in upTo(j) /\ j \notin upTo(i)
    <3> SUFFICES ASSUME i < j
                 PROVE  upTo(i) \subseteq upTo(j) /\ j \in upTo(j) /\ j \notin upTo(i)
      OBVIOUS
    <3>1. \A k \in keep : k <= i => k <= j
      BY SMT, <2>0
    <3>2. upTo(i) \subseteq upTo(j)
      BY <3>1
    <3>3. j <= j /\ ~(j <= i)
      BY SMT, <2>0
    <3>4. j \in upTo(j) /\ j \notin upTo(i)
      BY <3>3
    <3> QED
      BY <3>2, <3>4
  <2>2. i < j /\ Cardinality(upTo(i)) = Cardinality(upTo(j)) => upTo(i) = upTo(j)
    BY <1>2, <2>1, FS_Subset
  <2> QED
    BY <2>1, <2>2
<1>5. \A i, j \in keep : Cardinality(upTo(i)) = Cardinality(upTo(j)) => i = j
  BY SMT, <1>4
<1>6. \A i \in keep : Cardinality(upTo(i)) \in 1 .. size
  BY SMT, <1>1, <1>2, <1>3
<1>7. rank \in Injection(keep, 1 .. size)
  <2>1. rank \in [keep -> 1 .. size]
    BY <1>6
  <2>2. \A i, j \in keep : rank[i] = rank[j] => i = j
    BY <1>5
  <2> QED
    BY <2>1, <2>2 DEF Injection, IsInjective
<1>8. IsFiniteSet(1 .. size) /\ Cardinality(1 .. size) = size
  BY SMT, <1>1, FS_Interval, 1 \in Int, size \in Int
<1>9. rank \in Surjection(keep, 1 .. size)
  BY <1>7, <1>8, FS_Injection
<1>10. \A k \in 1 .. size : \E i \in keep : rank[i] = k
  BY <1>9 DEF Surjection
<1> QED
  BY <1>1, <1>5, <1>6, <1>10

-----------------------------------------------------------------------------
(* The resource operations *)

(* What ReferencesKept says of a configuration c and the one, d, it is     *)
(* turned into.                                                            *)
HasOutbound(c, name) == \E i \in DOMAIN c.outbounds : c.outbounds[i].name = name

Kept(c, d) ==
  /\ \A tag \in RoutedTags(c) :
       Sources(c, tag) # {} => Sources(d, tag) # {} \/ tag \notin RoutedTags(d)
  /\ \A name \in c.pricing : HasOutbound(c, name) => HasOutbound(d, name)

Mutation(c, d) == IsConfig(d) /\ Kept(c, d)

(* SelectInSeq finds the first outbound of a name, or there is none. *)
LEMMA FirstNamed ==
  ASSUME NEW c, IsConfig(c), NEW name
  PROVE  LET i == SelectInSeq(c.outbounds, LAMBDA o : o.name = name)
         IN  \/ i = 0 /\ ~HasOutbound(c, name)
             \/ i \in DOMAIN c.outbounds /\ c.outbounds[i].name = name
<1> DEFINE I == {i \in 1 .. Len(c.outbounds) : c.outbounds[i].name = name}
<1>1. Len(c.outbounds) \in Nat /\ DOMAIN c.outbounds = 1 .. Len(c.outbounds)
  BY SMT DEF IsConfig
<1>2. SelectInSeq(c.outbounds, LAMBDA o : o.name = name) = IF I # {} THEN Min(I) ELSE 0
  BY DEF SelectInSeq
<1>3. I \in SUBSET Nat
  BY SMT, <1>1
<1>4. I # {} => Min(I) \in I
  BY <1>3, MinIsLeast
<1> QED
  BY <1>1, <1>2, <1>4 DEF HasOutbound

(* A change of a field that neither IsConfig nor Kept looks at, or of the  *)
(* rules alone: references are kept because the sources and the outbounds  *)
(* stay.                                                                   *)
LEMMA RulesChange ==
  ASSUME NEW c, IsConfig(c), NEW rules
  PROVE  Mutation(c, [c EXCEPT !.rules = rules])
<1> DEFINE d == [c EXCEPT !.rules = rules]
<1>1. /\ DOMAIN d = DOMAIN c /\ d.outbounds = c.outbounds
      /\ d.bindings = c.bindings /\ d.clients = c.clients
  BY DEF IsConfig, Fields
<1>2. IsConfig(d)
  BY <1>1 DEF IsConfig
<1>3. \A tag : Sources(d, tag) = Sources(c, tag)
  BY <1>1 DEF Sources
<1>4. \A name : HasOutbound(d, name) = HasOutbound(c, name)
  BY <1>1 DEF HasOutbound
<1> HIDE DEF d
<1>5. Kept(c, d)
  BY <1>3, <1>4 DEF Kept
<1> QED
  BY <1>2, <1>5 DEF Mutation, d

(* A change of the outbounds that keeps those that have a price. *)
LEMMA OutboundsChange ==
  ASSUME NEW c, IsConfig(c), NEW outbounds,
         outbounds \in Seq(ToSet(outbounds)),
         \A i \in DOMAIN outbounds : "name" \in DOMAIN outbounds[i],
         \A name \in c.pricing : HasOutbound(c, name) =>
           \E i \in DOMAIN outbounds : outbounds[i].name = name
  PROVE  Mutation(c, [c EXCEPT !.outbounds = outbounds])
<1> DEFINE d == [c EXCEPT !.outbounds = outbounds]
<1>1. /\ DOMAIN d = DOMAIN c /\ d.outbounds = outbounds
      /\ d.bindings = c.bindings /\ d.clients = c.clients
  BY DEF IsConfig, Fields
<1>2. IsConfig(d)
  BY <1>1 DEF IsConfig
<1>3. \A tag : Sources(d, tag) = Sources(c, tag)
  BY <1>1 DEF Sources
<1>4. \A name \in c.pricing : HasOutbound(c, name) => HasOutbound(d, name)
  BY <1>1 DEF HasOutbound
<1> HIDE DEF d
<1>5. Kept(c, d)
  BY <1>3, <1>4 DEF Kept
<1> QED
  BY <1>2, <1>5 DEF Mutation, d

(* A change of the clients or the bindings after which every tag still has *)
(* a source, or had none, or is not routed.                                *)
LEMMA SourcesChange ==
  ASSUME NEW c, IsConfig(c), NEW d,
         DOMAIN d = DOMAIN c, d.outbounds = c.outbounds, d.rules = c.rules,
         \A tag \in RoutedTags(c) : Sources(c, tag) # {} => Sources(d, tag) # {}
  PROVE  Mutation(c, d)
<1>1. IsConfig(d)
  BY DEF IsConfig
<1>2. \A name : HasOutbound(d, name) = HasOutbound(c, name)
  BY DEF HasOutbound
<1>3. Kept(c, d)
  BY <1>2 DEF Kept
<1> QED
  BY <1>1, <1>3 DEF Mutation

(* A provider is replaced by one of its name, or added: all names stay. *)
LEMMA ProviderUpsertsKeep ==
  ASSUME NEW c, IsConfig(c), NEW d \in ProviderUpserts(c)
  PROVE  Mutation(c, d)
<1>1. PICK next \in ProviderSpecs : d = UpsertOutbound(c, next)
  BY DEF ProviderUpserts
<1> DEFINE items == c.outbounds
           new == Upsert(items, next)
           k == SelectInSeq(items, LAMBDA item : item.name = next.name)
<1>2. "name" \in DOMAIN next
  BY ConfigAssumption
<1>3. /\ items \in Seq(ToSet(items)) /\ Len(items) \in Nat /\ DOMAIN items = 1 .. Len(items)
      /\ \A i \in DOMAIN items : "name" \in DOMAIN items[i]
  BY SMT DEF IsConfig
<1>4. \/ k = 0 /\ ~HasOutbound(c, next.name)
      \/ k \in DOMAIN items /\ items[k].name = next.name
  BY FirstNamed
<1>5. new = IF k = 0 THEN Append(items, next) ELSE [items EXCEPT ![k] = next]
  BY DEF Upsert, ReplaceAt
<1> HIDE DEF k, new
<1>6. /\ new \in Seq(ToSet(new))
      /\ \A i \in DOMAIN new : "name" \in DOMAIN new[i]
      /\ \A i \in DOMAIN items : i \in DOMAIN new /\ new[i].name = items[i].name
  <2>1. CASE k = 0
    <3>1. /\ DOMAIN new = 1 .. Len(items) + 1 /\ Len(new) = Len(items) + 1
          /\ \A i \in 1 .. Len(items) : new[i] = items[i]
          /\ new[Len(items) + 1] = next
          /\ new = [i \in 1 .. Len(items) + 1 |-> new[i]]
      BY SMT, <1>3, <1>5, <2>1
    <3>2. new \in Seq(ToSet(new))
      BY SMT, <1>3, <3>1 DEF ToSet
    <3>3. \A i \in DOMAIN new : "name" \in DOMAIN new[i]
      <4> TAKE i \in DOMAIN new
      <4>1. i \in 1 .. Len(items) \/ i = Len(items) + 1
        BY SMT, <1>3, <3>1
      <4> QED
        BY <1>2, <1>3, <3>1, <4>1
    <3>4. \A i \in DOMAIN items : i \in DOMAIN new /\ new[i].name = items[i].name
      <4>1. \A i \in 1 .. Len(items) : i \in 1 .. Len(items) + 1
        BY SMT, <1>3
      <4> QED
        BY <1>3, <3>1, <4>1
    <3> QED
      BY <3>2, <3>3, <3>4
  <2>2. CASE k # 0
    <3>1. /\ DOMAIN new = 1 .. Len(items) /\ Len(new) = Len(items)
          /\ \A i \in 1 .. Len(items) : new[i] = IF i = k THEN next ELSE items[i]
          /\ new = [i \in 1 .. Len(items) |-> new[i]]
      <4>1. new = [items EXCEPT ![k] = next] /\ k \in DOMAIN items
        BY <1>4, <1>5, <2>2
      <4>2. /\ DOMAIN new = DOMAIN items
            /\ \A i \in DOMAIN items : new[i] = IF i = k THEN next ELSE items[i]
        BY ONLY <4>1
      <4>3. new = [i \in DOMAIN items |-> new[i]]
        BY ONLY <4>1
      <4>4. \A m \in Nat : DOMAIN new = 1 .. m => Len(new) = m
        BY ONLY <4>3
      <4>5. DOMAIN new = 1 .. Len(items) /\ Len(new) = Len(items)
        BY ONLY <1>3, <4>2, <4>4
      <4> QED
        BY ONLY Zenon, <1>3, <4>2, <4>3, <4>5
    <3>2. new \in Seq(ToSet(new))
      BY SMT, <1>3, <3>1 DEF ToSet
    <3> QED
      BY <1>2, <1>3, <1>4, <2>2, <3>1, <3>2
  <2> QED
    BY <2>1, <2>2
<1>7. Mutation(c, [c EXCEPT !.outbounds = new])
  BY <1>6, OutboundsChange DEF HasOutbound
<1> QED
  BY <1>1, <1>7 DEF UpsertOutbound, new

(* A deleted provider has no price, and those of other names stay. *)
LEMMA ProviderDeletesKeep ==
  ASSUME NEW c, IsConfig(c), NEW d \in ProviderDeletes(c)
  PROVE  Mutation(c, d)
<1>1. PICK name : d = DeleteOutbound(c, name) /\ validateProviderDelete(c, name)
  BY DEF ProviderDeletes
<1> DEFINE items == c.outbounds
           new == DeleteNamed(items, name)
           keep == {i \in DOMAIN items : items[i].name # name}
           upTo(i) == {m \in keep : m <= i}
           at(k) == CHOOSE i \in keep : Cardinality(upTo(i)) = k
<1>2. name \notin c.pricing
  BY <1>1 DEF validateProviderDelete
<1>3. /\ Len(items) \in Nat /\ DOMAIN items = 1 .. Len(items)
      /\ \A i \in DOMAIN items : "name" \in DOMAIN items[i]
  BY SMT DEF IsConfig
<1>4. keep \in SUBSET (1 .. Len(items))
  BY <1>3
<1>5. new = [k \in 1 .. Cardinality(keep) |-> items[at(k)]]
  BY DEF DeleteNamed
<1> HIDE DEF keep, new
<1>6. /\ Cardinality(keep) \in Nat
      /\ \A i \in keep : Cardinality(upTo(i)) \in 1 .. Cardinality(keep)
      /\ \A i, j \in keep : Cardinality(upTo(i)) = Cardinality(upTo(j)) => i = j
      /\ \A k \in 1 .. Cardinality(keep) : \E i \in keep : Cardinality(upTo(i)) = k
  BY <1>3, <1>4, Ranks
<1> HIDE DEF upTo
<1>7. \A k \in 1 .. Cardinality(keep) : at(k) \in keep
  BY <1>6
<1>8. \A i \in keep : at(Cardinality(upTo(i))) = i
  BY <1>6
<1> HIDE DEF at
<1>9. new \in Seq(ToSet(new))
  <2>1. /\ DOMAIN new = 1 .. Cardinality(keep) /\ Len(new) = Cardinality(keep)
        /\ new = [k \in 1 .. Cardinality(keep) |-> new[k]]
    BY SMT, <1>5, <1>6
  <2> QED
    BY SMT, <1>6, <2>1 DEF ToSet
<1>10. \A k \in DOMAIN new : "name" \in DOMAIN new[k]
  BY <1>3, <1>4, <1>5, <1>7
<1>11. \A n \in c.pricing : HasOutbound(c, n) => \E k \in DOMAIN new : new[k].name = n
  <2> TAKE n \in c.pricing
  <2> SUFFICES ASSUME NEW i \in DOMAIN items, items[i].name = n
               PROVE  \E k \in DOMAIN new : new[k].name = n
    BY DEF HasOutbound
  <2>1. i \in keep
    BY <1>2 DEF keep
  <2>2. Cardinality(upTo(i)) \in DOMAIN new /\ new[Cardinality(upTo(i))] = items[i]
    BY <1>5, <1>6, <1>8, <2>1
  <2> QED
    BY <2>2
<1>12. Mutation(c, [c EXCEPT !.outbounds = new])
  BY <1>9, <1>10, <1>11, OutboundsChange
<1> QED
  BY <1>1, <1>12 DEF DeleteOutbound, new

(* Enabling and disabling a provider changes no name. *)
LEMMA ProviderEnablesKeep ==
  ASSUME NEW c, IsConfig(c), NEW d \in ProviderEnables(c)
  PROVE  Mutation(c, d)
<1>1. PICK p \in ProviderSpecs : /\ HasOutbound(c, p.name)
                                 /\ d = SetOutboundEnabled(c, p.name, p.enabled)
  BY DEF ProviderEnables, HasOutbound
<1> DEFINE items == c.outbounds
           k == SelectInSeq(items, LAMBDA o : o.name = p.name)
           new == [items EXCEPT ![k].enabled = p.enabled]
<1>2. /\ items \in Seq(ToSet(items)) /\ Len(items) \in Nat /\ DOMAIN items = 1 .. Len(items)
      /\ \A i \in DOMAIN items : "name" \in DOMAIN items[i]
  BY SMT DEF IsConfig
<1>3. \/ k = 0 /\ ~HasOutbound(c, p.name)
      \/ k \in DOMAIN items /\ items[k].name = p.name
  BY FirstNamed
<1>4. d = [c EXCEPT !.outbounds = new]
  BY <1>1 DEF SetOutboundEnabled
<1> HIDE DEF k
<1>5. /\ DOMAIN new = 1 .. Len(items) /\ Len(new) = Len(items)
      /\ new = [i \in 1 .. Len(items) |-> new[i]]
  BY SMT, <1>2
<1>6. \A i \in DOMAIN items : /\ i \in DOMAIN new /\ "name" \in DOMAIN new[i]
                              /\ new[i].name = items[i].name
  BY <1>2
<1> HIDE DEF new
<1>7. new \in Seq(ToSet(new))
  BY SMT, <1>2, <1>5 DEF ToSet
<1>8. Mutation(c, [c EXCEPT !.outbounds = new])
  BY <1>2, <1>5, <1>6, <1>7, OutboundsChange DEF HasOutbound
<1> QED
  BY <1>4, <1>8

(* What makes a binding a source of a tag. *)
LEMMA SourceIs ==
  ASSUME NEW c, NEW tag, NEW i, NEW ref
  PROVE  <<i, ref>> \in Sources(c, tag) <=>
           /\ i \in DOMAIN c.bindings /\ ref \in DOMAIN c.clients
           /\ ref \in DOMAIN c.bindings[i] /\ c.bindings[i][ref] = tag
BY DEF Sources

(* Every source is a binding and a client. *)
LEMMA SourceExists ==
  ASSUME NEW c, NEW tag, NEW s \in Sources(c, tag)
  PROVE  \E i \in DOMAIN c.bindings, ref \in DOMAIN c.clients : s = <<i, ref>>
BY SMT DEF Sources

(* An upserted client adds sources at most. *)
LEMMA ClientUpsertsKeep ==
  ASSUME NEW c, IsConfig(c), NEW d \in ClientUpserts(c)
  PROVE  Mutation(c, d)
<1>1. PICK name, token, quota : d = UpsertClient(c, name, token, quota)
  BY DEF ClientUpserts
<1>2. /\ DOMAIN d = DOMAIN c /\ d.outbounds = c.outbounds /\ d.rules = c.rules
      /\ d.bindings = c.bindings /\ d.clients = With(c.clients, name, token)
  BY <1>1 DEF UpsertClient, IsConfig, Fields
<1>3. DOMAIN c.clients \subseteq DOMAIN d.clients
  BY <1>2 DEF With
<1>4. \A tag : Sources(c, tag) \subseteq Sources(d, tag)
  BY <1>2, <1>3 DEF Sources
<1> QED
  BY <1>2, <1>4, SourcesChange

(* A client is deleted only when no binding refers to it. *)
LEMMA ClientDeletesKeep ==
  ASSUME NEW c, IsConfig(c), NEW d \in ClientDeletes(c)
  PROVE  Mutation(c, d)
<1>1. PICK name : d = DeleteClient(c, name) /\ ClientBindings(c, name) = {}
  BY DEF ClientDeletes
<1>2. /\ DOMAIN d = DOMAIN c /\ d.outbounds = c.outbounds /\ d.rules = c.rules
      /\ d.bindings = c.bindings /\ DOMAIN d.clients = DOMAIN c.clients \ {name}
  BY <1>1 DEF DeleteClient, Without, Restrict, IsConfig, Fields
<1>3. \A i \in DOMAIN c.bindings : name \notin DOMAIN c.bindings[i]
  BY <1>1 DEF ClientBindings
<1>4. \A tag : Sources(c, tag) \subseteq Sources(d, tag)
  <2> SUFFICES ASSUME NEW tag, NEW s \in Sources(c, tag)
               PROVE  s \in Sources(d, tag)
    OBVIOUS
  <2>1. PICK i \in DOMAIN c.bindings, ref \in DOMAIN c.clients : s = <<i, ref>>
    BY SMT, SourceExists
  <2> QED
    BY SMT, <1>2, <1>3, <2>1, SourceIs
<1> QED
  BY <1>2, <1>4, SourcesChange

(* A binding (inbound, ref) gets another tag or goes.  The tags of the     *)
(* other bindings keep their sources; its own tag has another source, or   *)
(* is not routed, or stays.                                                *)
LEMMA BindingChange ==
  ASSUME NEW c, IsConfig(c), NEW d, NEW inbound \in DOMAIN c.bindings, NEW ref,
         DOMAIN d = DOMAIN c, d.outbounds = c.outbounds, d.rules = c.rules,
         d.clients = c.clients, DOMAIN d.bindings = DOMAIN c.bindings,
         \A i \in DOMAIN c.bindings : \A r \in DOMAIN c.bindings[i] :
           <<i, r>> # <<inbound, ref>> =>
             r \in DOMAIN d.bindings[i] /\ d.bindings[i][r] = c.bindings[i][r],
         ref \in DOMAIN c.bindings[inbound] =>
           \/ validateClientTagRemoval(c, inbound, ref, c.bindings[inbound][ref])
           \/ /\ ref \in DOMAIN d.bindings[inbound]
              /\ d.bindings[inbound][ref] = c.bindings[inbound][ref]
  PROVE  Mutation(c, d)
<1>1. \A tag : Sources(c, tag) \ {<<inbound, ref>>} \subseteq Sources(d, tag)
  <2> SUFFICES ASSUME NEW tag, NEW s \in Sources(c, tag), s # <<inbound, ref>>
               PROVE  s \in Sources(d, tag)
    OBVIOUS
  <2>1. PICK i \in DOMAIN c.bindings, r \in DOMAIN c.clients : s = <<i, r>>
    BY SMT, SourceExists
  <2>2. r \in DOMAIN c.bindings[i] /\ c.bindings[i][r] = tag
    BY SMT, <2>1, SourceIs
  <2>3. r \in DOMAIN d.bindings[i] /\ d.bindings[i][r] = tag
    BY <2>1, <2>2
  <2> QED
    BY <2>1, <2>3, SourceIs
<1>2. ASSUME NEW tag \in RoutedTags(c), Sources(c, tag) # {}
      PROVE  Sources(d, tag) # {}
  <2>1. CASE <<inbound, ref>> \notin Sources(c, tag)
    BY <1>1, <1>2, <2>1
  <2>2. CASE <<inbound, ref>> \in Sources(c, tag)
    <3>1. /\ ref \in DOMAIN c.clients
          /\ ref \in DOMAIN c.bindings[inbound] /\ c.bindings[inbound][ref] = tag
      BY SMT, <2>2, SourceIs
    <3>2. CASE validateClientTagRemoval(c, inbound, ref, tag)
      BY <1>1, <3>2 DEF validateClientTagRemoval
    <3>3. CASE ref \in DOMAIN d.bindings[inbound] /\ d.bindings[inbound][ref] = tag
      BY <3>1, <3>3, SourceIs
    <3> QED
      BY <3>1, <3>2, <3>3
  <2> QED
    BY <2>1, <2>2
<1> QED
  BY <1>2, SourcesChange

(* A binding that gets another tag leaves a source of the old one. *)
LEMMA BindingUpsertsKeep ==
  ASSUME NEW c, IsConfig(c), NEW d \in BindingUpserts(c)
  PROVE  Mutation(c, d)
<1>1. PICK b \in BindingSpecs :
        /\ d = UpsertBinding(c, b.inbound, b.ref, b.tag)
        /\ b.inbound \in DOMAIN c.bindings
        /\ (b.ref \in DOMAIN c.bindings[b.inbound] /\ c.bindings[b.inbound][b.ref] # b.tag)
             => validateClientTagRemoval(c, b.inbound, b.ref, c.bindings[b.inbound][b.ref])
  BY DEF BindingUpserts
<1> DEFINE new == With(c.bindings[b.inbound], b.ref, b.tag)
<1>2. /\ DOMAIN d = DOMAIN c /\ d.outbounds = c.outbounds /\ d.rules = c.rules
      /\ d.clients = c.clients /\ d.bindings = [c.bindings EXCEPT ![b.inbound] = new]
  BY <1>1 DEF UpsertBinding, IsConfig, Fields
<1>3. /\ DOMAIN new = DOMAIN c.bindings[b.inbound] \cup {b.ref} /\ new[b.ref] = b.tag
      /\ \A r \in DOMAIN c.bindings[b.inbound] \ {b.ref} : new[r] = c.bindings[b.inbound][r]
  BY DEF With
<1> HIDE DEF new
<1>4. \A i \in DOMAIN c.bindings : \A r \in DOMAIN c.bindings[i] :
        <<i, r>> # <<b.inbound, b.ref>> =>
          r \in DOMAIN d.bindings[i] /\ d.bindings[i][r] = c.bindings[i][r]
  BY <1>2, <1>3
<1>5. DOMAIN d.bindings = DOMAIN c.bindings /\ d.bindings[b.inbound] = new
  BY <1>1, <1>2
<1> QED
  BY SMT, <1>1, <1>2, <1>3, <1>4, <1>5, BindingChange

(* A deleted binding leaves another source of its tag. *)
LEMMA BindingDeletesKeep ==
  ASSUME NEW c, IsConfig(c), NEW d \in BindingDeletes(c)
  PROVE  Mutation(c, d)
<1>1. PICK inbound, ref :
        /\ inbound \in DOMAIN c.bindings /\ ref \in DOMAIN c.bindings[inbound]
        /\ d = DeleteBinding(c, inbound, ref)
        /\ validateClientTagRemoval(c, inbound, ref, c.bindings[inbound][ref])
  BY DEF BindingDeletes
<1> DEFINE new == Restrict(c.bindings[inbound], DOMAIN c.bindings[inbound] \ {ref})
<1>2. /\ DOMAIN d = DOMAIN c /\ d.outbounds = c.outbounds /\ d.rules = c.rules
      /\ d.clients = c.clients /\ d.bindings = [c.bindings EXCEPT ![inbound] = new]
  BY <1>1 DEF DeleteBinding, Without, IsConfig, Fields
<1>3. /\ DOMAIN new = DOMAIN c.bindings[inbound] \ {ref}
      /\ \A r \in DOMAIN c.bindings[inbound] \ {ref} : new[r] = c.bindings[inbound][r]
  BY DEF Restrict
<1> HIDE DEF new
<1>4. \A i \in DOMAIN c.bindings : \A r \in DOMAIN c.bindings[i] :
        <<i, r>> # <<inbound, ref>> =>
          r \in DOMAIN d.bindings[i] /\ d.bindings[i][r] = c.bindings[i][r]
  BY <1>2, <1>3
<1>5. DOMAIN d.bindings = DOMAIN c.bindings
  BY <1>2
<1> QED
  BY SMT, <1>1, <1>2, <1>4, <1>5, BindingChange

(* Upserting, deleting and moving routes changes the rules alone. *)
LEMMA RouteChangesKeep ==
  ASSUME NEW c, IsConfig(c), NEW expected,
         NEW d \in RouteUpserts(c) \cup RouteDeletes(c) \cup RouteReorders(c, expected)
  PROVE  Mutation(c, d)
<1>1. PICK rules : d = [c EXCEPT !.rules = rules]
  BY DEF RouteUpserts, UpsertRoute, RouteDeletes, DeleteRoute, RouteReorders, MoveRoute
<1> QED
  BY <1>1, RulesChange

-----------------------------------------------------------------------------
(* The manager *)

(* Everything kept as a configuration has the shape of one. *)
Shapes ==
  /\ IsConfig(file) /\ IsConfig(running)
  /\ history \in Seq(ToSet(history))
  /\ \A i \in DOMAIN history : IsConfig(history[i])

(* c is the entry saved last. *)
Newest(c) == Len(history) > 0 /\ history[1] = c

(* What holds of the operation under way, by its kind and by how far it    *)
(* has come: its new configuration is valid; the file is still the one it  *)
(* read until it has written; what it is about to replace is in the        *)
(* history already, at first as the newest entry.                          *)
OperationOK ==
  op # NoOp =>
    /\ up
    /\ DOMAIN op = {"kind", "at", "file", "next", "swapped"}
    /\ op.at \in Steps /\ op.swapped \in 0 .. Listeners
    /\ \/ op.kind = "mutate" /\ op.at \in {"history", "write", "trackers", "swap"}
       \/ op.kind = "apply" /\ op.at \in {"save running", "trackers", "swap"}
       \/ op.kind = "rollback"
    /\ op.at # "swap" => op.swapped = 0
    /\ IsConfig(op.file) /\ IsConfig(op.next) /\ Validate(op.next)
    /\ op.at \in {"history", "write"} \/ op.kind = "apply" => file = op.file
    /\ op.at = "write" \/ (op.at \in {"build", "save running"} /\ op.kind = "rollback") => Newest(op.file)
    /\ op.at = "restore" => Contains(history, op.file)
    /\ op.kind # "mutate" /\ op.at \in {"trackers", "swap"} => Contains(history, running)
    /\ op.kind = "mutate" /\ op.at \in {"history", "write"} => Kept(op.file, op.next)

(* The listeners swapped so far serve the new configuration, the others    *)
(* the running one.                                                        *)
Serving(l) ==
  IF op # NoOp /\ op.at = "swap" /\ l <= op.swapped THEN op.next ELSE running

ServedOK == up => served = [l \in 1 .. Listeners |-> Serving(l)]

ManagerInv == FileLoads /\ Shapes /\ OperationOK /\ ServedOK

(* The newest entry is an entry. *)
LEMMA NewestIn ==
  ASSUME Shapes, NEW c, Newest(c)
  PROVE  Contains(history, c)
<1>1. Len(history) \in Nat
  BY SMT DEF Shapes
<1> QED
  BY SMT, <1>1 DEF Newest, Contains

(* The entry just saved is in the history, which stays one, as is the one  *)
(* saved before it: there is room for two.                                 *)
LEMMA SavedOK ==
  ASSUME Shapes, NEW c, IsConfig(c)
  PROVE  /\ Saved(c) \in Seq(ToSet(Saved(c)))
         /\ \A i \in DOMAIN Saved(c) : IsConfig(Saved(c)[i])
         /\ Contains(Saved(c), c) /\ Len(Saved(c)) > 0 /\ Saved(c)[1] = c
         /\ \A d : Newest(d) => Contains(Saved(c), d)
<1> DEFINE entries == <<c>> \o history
           n == Min({Len(entries), HistoryLimit})
<1>1. Len(history) \in Nat /\ DOMAIN history = 1 .. Len(history)
  BY SMT DEF Shapes
<1>2. /\ Len(entries) = Len(history) + 1 /\ entries[1] = c
      /\ \A i \in 1 .. Len(history) : entries[i + 1] = history[i]
  BY SMT, <1>1 DEF Shapes
<1>3. \A i \in 1 .. Len(entries) : IsConfig(entries[i])
  <2> TAKE i \in 1 .. Len(entries)
  <2>1. i = 1 \/ (i - 1 \in 1 .. Len(history) /\ entries[(i - 1) + 1] = history[i - 1])
    BY SMT, <1>1, <1>2
  <2>2. i = 1 \/ entries[i] = history[i - 1]
    BY SMT, <1>1, <1>2, <2>1
  <2> QED
    BY <1>1, <1>2, <2>1, <2>2 DEF Shapes
<1>4. n \in Nat /\ n >= 1 /\ n <= Len(entries) /\ (Len(history) > 0 => n >= 2)
  <2>1. {Len(entries), HistoryLimit} \in SUBSET Nat /\ HistoryLimit > 1 /\ Len(entries) \in Nat
    BY SMT, <1>1, <1>2, ReloadAssumption
  <2>2. n \in {Len(entries), HistoryLimit} /\ n <= Len(entries)
    BY <2>1, MinIsLeast
  <2> HIDE DEF n
  <2> QED
    BY SMT, <1>1, <1>2, <2>1, <2>2
<1>5. Saved(c) = SubSeq(entries, 1, n)
  BY DEF Saved
<1> HIDE DEF n
<1>6. Saved(c) = [i \in 1 .. n |-> entries[i]]
  BY SMT, <1>1, <1>2, <1>4, <1>5
<1> HIDE DEF entries
<1>7. DOMAIN Saved(c) = 1 .. n /\ Len(Saved(c)) = n
  BY SMT, <1>4, <1>6
<1>8. Saved(c) \in Seq(ToSet(Saved(c)))
  BY SMT, <1>4, <1>6, <1>7 DEF ToSet
<1>9. \A i \in DOMAIN Saved(c) : IsConfig(Saved(c)[i])
  BY SMT, <1>1, <1>2, <1>3, <1>4, <1>6, <1>7
<1>10. Contains(Saved(c), c) /\ Len(Saved(c)) > 0 /\ Saved(c)[1] = c
  BY SMT, <1>2, <1>4, <1>6, <1>7 DEF Contains
<1>11. ASSUME NEW d, Newest(d) PROVE Contains(Saved(c), d)
  <2>1. Len(history) > 0 /\ entries[1 + 1] = d
    BY SMT, <1>1, <1>2, <1>11 DEF Newest
  <2> QED
    BY SMT, <1>4, <1>6, <1>7, <2>1 DEF Contains
<1> QED
  BY <1>8, <1>9, <1>10, <1>11

(* Initially. *)
LEMMA ManagerStarts == Init => ManagerInv
<1> SUFFICES ASSUME Init PROVE ManagerInv
  OBVIOUS
<1> USE DEF Init, ReloadInit
<1>1. FileLoads
  BY ReloadAssumption DEF FileLoads
<1>2. Shapes
  BY ReloadAssumption DEF Shapes, ToSet
<1>3. OperationOK
  BY DEF OperationOK
<1>4. ServedOK
  BY DEF ServedOK, Serving
<1> QED
  BY <1>1, <1>2, <1>3, <1>4 DEF ManagerInv

(* At first no listener has been swapped. *)
LEMMA NoneSwapped == 0 \in 0 .. Listeners
<1>1. Listeners \in Nat
  BY ReloadAssumption
<1> QED
  BY SMT, <1>1

(* An operation begins with a valid configuration that keeps references. *)
LEMMA BeginOK ==
  ASSUME ManagerInv, Idle, NEW kind, NEW at, NEW next, Begin(kind, at, next),
         IsConfig(next), Validate(next),
         \/ kind = "mutate" /\ at = "history" /\ Kept(file, next)
         \/ kind = "apply" /\ at = "save running"
         \/ kind = "rollback" /\ at = "history"
  PROVE  ManagerInv'
<1> USE DEF Begin, Idle
<1>1. FileLoads'
  BY DEF ManagerInv, FileLoads
<1>2. Shapes'
  BY DEF ManagerInv, Shapes
<1>3. OperationOK'
  <2>1. /\ DOMAIN op' = {"kind", "at", "file", "next", "swapped"}
        /\ op'.kind = kind /\ op'.at = at /\ op'.file = file /\ op'.next = next /\ op'.swapped = 0
    OBVIOUS
  <2>2. op'.at \in Steps
    BY <2>1 DEF Steps
  <2> QED
    BY <2>1, <2>2, NoneSwapped DEF ManagerInv, OperationOK, Shapes
<1>4. ServedOK'
  BY DEF ManagerInv, ServedOK, Serving
<1> QED
  BY <1>1, <1>2, <1>3, <1>4 DEF ManagerInv

(* A mutation begins. *)
LEMMA MutateOK ==
  ASSUME ManagerInv, NEW next, Mutation(file, next), MutateConfig(next)
  PROVE  ManagerInv'
<1>1. IsConfig(next) /\ Kept(file, next)
  BY DEF Mutation
<1> QED
  BY <1>1, BeginOK DEF MutateConfig

(* An apply begins. *)
LEMMA ApplyOK ==
  ASSUME ManagerInv, ApplyConfig
  PROVE  ManagerInv'
<1>1. IsConfig(file)
  BY DEF ManagerInv, Shapes
<1> QED
  BY <1>1, BeginOK DEF ApplyConfig

(* A rollback begins. *)
LEMMA RollbackOK ==
  ASSUME ManagerInv, NEW i \in DOMAIN history, Rollback(i)
  PROVE  ManagerInv'
<1>1. IsConfig(history[i])
  BY DEF ManagerInv, Shapes
<1> QED
  BY <1>1, BeginOK DEF Rollback

(* The file is replaced between operations, by an update or by hand. *)
LEMMA FileChangeOK ==
  ASSUME ManagerInv, op = NoOp, NEW c \in Submitted, file' = c,
         (edited' = TRUE) \/ (edited' = FALSE /\ Validate(c)),
         UNCHANGED <<up, running, served, history, op>>
  PROVE  ManagerInv'
<1>1. FileLoads'
  BY DEF FileLoads
<1>2. IsConfig(c)
  BY ReloadAssumption
<1>3. Shapes'
  BY <1>2 DEF ManagerInv, Shapes
<1>4. OperationOK'
  BY DEF OperationOK
<1>5. ServedOK'
  BY DEF ManagerInv, ServedOK, Serving
<1> QED
  BY <1>1, <1>3, <1>4, <1>5 DEF ManagerInv

(* A step that ends the operation before the listeners are swapped. *)
LEMMA EndOK ==
  ASSUME ManagerInv, op # NoOp, op.at # "swap", NEW how, End(how),
         UNCHANGED <<up, running, served>>, FileLoads', Shapes'
  PROVE  ManagerInv'
<1>1. OperationOK'
  BY DEF End, OperationOK
<1>2. ServedOK'
  BY DEF ManagerInv, End, ServedOK, Serving
<1> QED
  BY <1>1, <1>2 DEF ManagerInv

(* What a step within an operation leaves of it. *)
LEMMA GoToOK ==
  ASSUME ManagerInv, op # NoOp, NEW step, GoTo(step)
  PROVE  /\ DOMAIN op' = {"kind", "at", "file", "next", "swapped"}
         /\ op'.at = step /\ op'.kind = op.kind /\ op'.file = op.file
         /\ op'.next = op.next /\ op'.swapped = op.swapped
         /\ op' # NoOp
<1>1. DOMAIN op = {"kind", "at", "file", "next", "swapped"}
  BY DEF ManagerInv, OperationOK
<1>2. DOMAIN NoOp = {"kind"}
  BY DEF NoOp
<1>3. DOMAIN op' = {"kind", "at", "file", "next", "swapped"}
  BY <1>1 DEF GoTo
<1>4. op' # NoOp
  BY SMT, <1>2, <1>3
<1> QED
  BY <1>1, <1>3, <1>4 DEF GoTo

(* What a step within an operation has to show for OperationOK. *)
LEMMA StepOK ==
  ASSUME ManagerInv, op # NoOp, op.at # "swap", NEW step \in Steps, GoTo(step), UNCHANGED up,
         \/ op.kind = "mutate" /\ step \in {"history", "write", "trackers", "swap"}
         \/ op.kind = "apply" /\ step \in {"save running", "trackers", "swap"}
         \/ op.kind = "rollback",
         step \in {"history", "write"} \/ op.kind = "apply" => file' = op.file,
         step = "write" \/ (step \in {"build", "save running"} /\ op.kind = "rollback") => Newest(op.file)',
         step = "restore" => Contains(history', op.file),
         op.kind # "mutate" /\ step \in {"trackers", "swap"} => Contains(history', running'),
         op.kind = "mutate" /\ step \in {"history", "write"} => op.at \in {"history", "write"}
  PROVE  OperationOK'
<1>1. /\ DOMAIN op' = {"kind", "at", "file", "next", "swapped"}
      /\ op'.at = step /\ op'.kind = op.kind /\ op'.file = op.file
      /\ op'.next = op.next /\ op'.swapped = op.swapped
  BY GoToOK
<1>2. /\ up /\ op.swapped = 0 /\ op.swapped \in 0 .. Listeners
      /\ IsConfig(op.file) /\ IsConfig(op.next) /\ Validate(op.next)
      /\ op.kind = "mutate" /\ op.at \in {"history", "write"} => Kept(op.file, op.next)
  BY DEF ManagerInv, OperationOK
<1> QED
  BY <1>1, <1>2 DEF OperationOK

(* The steps an operation takes before it changes what is served. *)
LEMMA EarlyStepsOK ==
  ASSUME ManagerInv,
         \/ SaveFile \/ SaveFails \/ WriteFile \/ WriteFails
         \/ RollbackBuilds \/ RollbackBuildFails \/ SaveRunning \/ SaveRunningFails
         \/ Restore \/ RestoreFails \/ ReconfigureTrackers
  PROVE  ManagerInv'
<1> USE DEF At
<1>1. FileLoads /\ Shapes /\ OperationOK /\ ServedOK
  BY DEF ManagerInv
<1>2. op # NoOp /\ op.at # "swap"
  BY DEF SaveFile, SaveFails, WriteFile, WriteFails, RollbackBuilds, RollbackBuildFails,
         SaveRunning, SaveRunningFails, Restore, RestoreFails, ReconfigureTrackers
<1>3. IsConfig(op.file) /\ IsConfig(op.next) /\ Validate(op.next) /\ IsConfig(running)
  BY <1>1, <1>2 DEF OperationOK, Shapes
<1>4. ASSUME NEW step, GoTo(step), step # "swap", UNCHANGED <<up, running, served>>
      PROVE  ServedOK'
  BY <1>1, <1>2, <1>4, GoToOK DEF ServedOK, Serving
<1>5. CASE SaveFile
  <2> USE <1>5 DEF SaveFile
  <2>1. FileLoads' /\ Shapes'
    BY <1>1, <1>3, SavedOK DEF FileLoads, Shapes
  <2>2. history'[1] = op.file /\ Len(history') > 0
    BY <1>1, <1>3, SavedOK
  <2>3. OperationOK'
    BY <1>1, <1>2, <2>2, StepOK, GoToOK DEF OperationOK, Steps, Newest
  <2>4. ServedOK'
    BY <1>4
  <2> QED
    BY <2>1, <2>3, <2>4 DEF ManagerInv
<1>6. CASE SaveFails
  <2> USE <1>6 DEF SaveFails
  <2>1. FileLoads' /\ Shapes'
    BY <1>1, <1>3, SavedOK DEF FileLoads, Shapes
  <2> QED
    BY <1>2, <2>1, EndOK
<1>7. CASE WriteFile
  <2> USE <1>7 DEF WriteFile
  <2>1. FileLoads' /\ Shapes'
    BY <1>1, <1>3 DEF FileLoads, Shapes
  <2>2. Newest(op.file)'
    <3>1. Newest(op.file) /\ history' = history
      <4>1. op.at = "write" /\ history' = history
        OBVIOUS
      <4> QED
        BY <1>1, <1>2, <4>1 DEF OperationOK
    <3>2. op'.file = op.file
      BY <1>2, GoToOK
    <3> QED
      BY <3>1, <3>2 DEF Newest
  <2>3. OperationOK'
    BY <1>1, <1>2, <2>2, StepOK DEF OperationOK, Steps
  <2>4. ServedOK'
    BY <1>4
  <2> QED
    BY <2>1, <2>3, <2>4 DEF ManagerInv
<1>8. CASE WriteFails \/ RestoreFails
  <2>1. FileLoads' /\ Shapes'
    BY <1>1, <1>8 DEF FileLoads, Shapes, WriteFails, RestoreFails
  <2> QED
    BY <1>2, <1>8, <2>1, EndOK DEF WriteFails, RestoreFails
<1>9. CASE RollbackBuilds
  <2> USE <1>9 DEF RollbackBuilds
  <2>1. FileLoads' /\ Shapes'
    BY <1>1 DEF FileLoads, Shapes
  <2>2. CASE restartRequired(running, op.next)
    BY <1>2, <2>1, <2>2, EndOK
  <2>3. CASE ~restartRequired(running, op.next)
    <3>1. GoTo("save running")
      BY <2>3
    <3>2. op.kind = "rollback" /\ Newest(op.file)'
      BY <1>1, <1>2, <3>1, GoToOK DEF OperationOK, Newest
    <3>3. OperationOK'
      BY <1>1, <1>2, <3>1, <3>2, StepOK DEF OperationOK, Steps
    <3>4. ServedOK'
      BY <1>4, <3>1
    <3> QED
      BY <2>1, <3>3, <3>4 DEF ManagerInv
  <2> QED
    BY <2>2, <2>3
<1>10. CASE RollbackBuildFails
  <2> USE <1>10 DEF RollbackBuildFails
  <2>1. FileLoads' /\ Shapes'
    BY <1>1 DEF FileLoads, Shapes
  <2>2. op.kind = "rollback" /\ Contains(history, op.file) /\ history' = history
    BY <1>1, <1>2, NewestIn DEF OperationOK
  <2>3. OperationOK'
    BY <1>1, <1>2, <2>2, StepOK DEF OperationOK, Steps
  <2>4. ServedOK'
    BY <1>4
  <2> QED
    BY <2>1, <2>3, <2>4 DEF ManagerInv
<1>11. CASE SaveRunning
  <2> USE <1>11 DEF SaveRunning
  <2>1. FileLoads' /\ Shapes'
    BY <1>1, <1>3, SavedOK DEF FileLoads, Shapes
  <2>2. Contains(history', running) /\ running' = running
    BY <1>1, <1>3, SavedOK
  <2>3. OperationOK'
    BY <1>1, <1>2, <2>2, StepOK DEF OperationOK, Steps
  <2>4. ServedOK'
    BY <1>4
  <2> QED
    BY <2>1, <2>3, <2>4 DEF ManagerInv
<1>12. CASE SaveRunningFails
  <2> USE <1>12 DEF SaveRunningFails
  <2>1. FileLoads' /\ Shapes'
    BY <1>1, <1>3, SavedOK DEF FileLoads, Shapes
  <2>2. CASE op.kind = "rollback"
    <3>1. GoTo("restore") /\ Newest(op.file)
      BY <1>1, <1>2, <2>2 DEF OperationOK
    <3>2. Contains(history', op.file)
      BY <1>1, <1>3, <3>1, SavedOK, NewestIn
    <3>3. OperationOK'
      BY <1>1, <1>2, <2>2, <3>1, <3>2, StepOK DEF OperationOK, Steps
    <3>4. ServedOK'
      BY <1>4, <3>1
    <3> QED
      BY <2>1, <3>3, <3>4 DEF ManagerInv
  <2>3. CASE op.kind # "rollback"
    BY <1>2, <2>1, <2>3, EndOK
  <2> QED
    BY <2>2, <2>3
<1>13. CASE Restore
  <2> USE <1>13 DEF Restore
  <2>1. FileLoads' /\ Shapes'
    BY <1>1, <1>3 DEF FileLoads, Shapes
  <2> QED
    BY <1>2, <2>1, EndOK
<1>14. CASE ReconfigureTrackers
  <2> USE <1>14 DEF ReconfigureTrackers
  <2>1. FileLoads' /\ Shapes'
    BY <1>1 DEF FileLoads, Shapes
  <2>2. OperationOK'
    BY <1>1, <1>2, StepOK DEF OperationOK, Steps
  <2>3. op.swapped = 0
    BY <1>1 DEF OperationOK
  <2>4. ServedOK'
    BY SMT, <1>1, <1>2, <2>3, GoToOK DEF ServedOK, Serving
  <2> QED
    BY <2>1, <2>2, <2>4 DEF ManagerInv
<1> QED
  BY <1>5, <1>6, <1>7, <1>8, <1>9, <1>10, <1>11, <1>12, <1>13, <1>14

(* The listeners are swapped one after the other. *)
LEMMA ApplyRuntimeOK ==
  ASSUME ManagerInv, ApplyRuntime
  PROVE  ManagerInv'
<1> USE DEF ApplyRuntime, At
<1>1. FileLoads' /\ Shapes'
  BY DEF ManagerInv, FileLoads, Shapes
<1>2. Listeners \in Nat
  BY ReloadAssumption
<1>3. OperationOK /\ DOMAIN op = {"kind", "at", "file", "next", "swapped"} /\ op.swapped \in Nat
  BY SMT, <1>2 DEF ManagerInv, OperationOK
<1>4. /\ DOMAIN op' = {"kind", "at", "file", "next", "swapped"}
      /\ op'.at = "swap" /\ op'.kind = op.kind /\ op'.file = op.file
      /\ op'.next = op.next /\ op'.swapped = op.swapped + 1
  BY <1>3
<1>5. op' # NoOp
  <2>1. DOMAIN NoOp = {"kind"}
    BY DEF NoOp
  <2> QED
    BY <1>4, <2>1
<1>6. op.swapped + 1 \in 0 .. Listeners /\ op.swapped + 1 \in 1 .. Listeners
  BY SMT, <1>2, <1>3
<1>7. OperationOK'
  BY <1>3, <1>4, <1>6 DEF OperationOK
<1>8. up /\ served = [l \in 1 .. Listeners |-> IF l <= op.swapped THEN op.next ELSE running]
  BY <1>3 DEF ManagerInv, OperationOK, ServedOK, Serving
<1>9. served' = [l \in 1 .. Listeners |-> IF l <= op.swapped + 1 THEN op.next ELSE running]
  <2>1. served' = [served EXCEPT ![op.swapped + 1] = op.next]
    OBVIOUS
  <2> HIDE DEF ApplyRuntime, At
  <2>2. \A l \in 1 .. Listeners : l <= op.swapped + 1 <=> l = op.swapped + 1 \/ l <= op.swapped
    BY SMT, <1>2, <1>3
  <2> QED
    BY <1>6, <1>8, <2>1, <2>2
<1>10. ServedOK'
  <2>1. running' = running /\ up'
    BY <1>8
  <2> QED
    BY <1>4, <1>5, <1>9, <2>1 DEF ServedOK, Serving
<1> QED
  BY <1>1, <1>7, <1>10 DEF ManagerInv

(* Once all are, the new configuration is the running one. *)
LEMMA CommitOK ==
  ASSUME ManagerInv, Commit
  PROVE  ManagerInv'
<1> USE DEF Commit, At, End
<1>1. FileLoads'
  BY DEF ManagerInv, FileLoads
<1>2. IsConfig(op.next)
  BY DEF ManagerInv, OperationOK
<1>3. Shapes'
  BY <1>2 DEF ManagerInv, Shapes
<1>4. OperationOK'
  BY DEF OperationOK
<1>5. Listeners \in Nat
  BY ReloadAssumption
<1>6. up /\ served = [l \in 1 .. Listeners |-> IF l <= op.swapped THEN op.next ELSE running]
  BY DEF ManagerInv, OperationOK, ServedOK, Serving
<1>7. served = [l \in 1 .. Listeners |-> op.next]
  BY SMT, <1>5, <1>6
<1>8. ServedOK'
  BY <1>7 DEF ServedOK, Serving
<1> QED
  BY <1>1, <1>3, <1>4, <1>8 DEF ManagerInv

(* The process dies and starts again, from the file as it then is. *)
LEMMA ProcessOK ==
  ASSUME ManagerInv, Crash \/ Start
  PROVE  ManagerInv'
<1>1. FileLoads'
  BY DEF ManagerInv, FileLoads, Crash, Start
<1>2. Shapes'
  BY DEF ManagerInv, Shapes, Crash, Start, Load
<1>3. OperationOK'
  BY DEF ManagerInv, OperationOK, Crash, Start
<1>4. ServedOK'
  <2>1. CASE Crash
    BY <2>1 DEF Crash, ServedOK
  <2>2. CASE Start
    <3>1. op = NoOp
      BY <2>2 DEF ManagerInv, OperationOK, Start
    <3> QED
      BY <2>2, <3>1 DEF Start, Load, ServedOK, Serving
  <2> QED
    BY <2>1, <2>2
<1> QED
  BY <1>1, <1>2, <1>3, <1>4 DEF ManagerInv

(* Every step of the manager preserves the invariant. *)
LEMMA ManagerNextOK ==
  ASSUME ManagerInv, ManagerNext
  PROVE  ManagerInv'
<1>0. IsConfig(file)
  BY DEF ManagerInv, Shapes
<1>1. CASE \E expected \in Revisions, data \in Submitted : UpdateConfig(expected, data)
  BY <1>1, FileChangeOK DEF UpdateConfig, Idle
<1>2. CASE \E next \in ProviderUpserts(file) : MutateConfig(next)
  BY <1>0, <1>2, ProviderUpsertsKeep, MutateOK
<1>3. CASE \E next \in ProviderDeletes(file) : MutateConfig(next)
  BY <1>0, <1>3, ProviderDeletesKeep, MutateOK
<1>4. CASE \E next \in ProviderEnables(file) : MutateConfig(next)
  BY <1>0, <1>4, ProviderEnablesKeep, MutateOK
<1>5. CASE \E next \in ClientUpserts(file) : MutateConfig(next)
  BY <1>0, <1>5, ClientUpsertsKeep, MutateOK
<1>6. CASE \E next \in ClientDeletes(file) : MutateConfig(next)
  BY <1>0, <1>6, ClientDeletesKeep, MutateOK
<1>7. CASE \E next \in BindingUpserts(file) : MutateConfig(next)
  BY <1>0, <1>7, BindingUpsertsKeep, MutateOK
<1>8. CASE \E next \in BindingDeletes(file) : MutateConfig(next)
  BY <1>0, <1>8, BindingDeletesKeep, MutateOK
<1>9. ASSUME NEW expected, NEW next, MutateConfig(next),
             next \in RouteUpserts(file) \cup RouteDeletes(file) \cup RouteReorders(file, expected)
      PROVE  ManagerInv'
  BY <1>0, <1>9, RouteChangesKeep, MutateOK
<1>10. CASE \E next \in RouteUpserts(file) : MutateConfig(next)
  BY <1>9, <1>10
<1>11. CASE \E next \in RouteDeletes(file) : MutateConfig(next)
  BY <1>9, <1>11
<1>12. CASE \E seen \in Revisions \ {None} : \E next \in RouteReorders(file, seen.rules) : MutateConfig(next)
  BY <1>9, <1>12
<1>13. CASE ApplyConfig
  BY <1>13, ApplyOK
<1>14. CASE \E i \in DOMAIN history : Rollback(i)
  BY <1>14, RollbackOK
<1>15. CASE \E content \in Submitted : EditFile(content)
  BY <1>15, FileChangeOK DEF EditFile
<1>16. CASE \/ SaveFile \/ SaveFails \/ WriteFile \/ WriteFails
            \/ RollbackBuilds \/ RollbackBuildFails \/ SaveRunning \/ SaveRunningFails
            \/ Restore \/ RestoreFails
  BY <1>16, EarlyStepsOK
<1>17. CASE ApplyRuntime
  BY <1>17, ApplyRuntimeOK
<1>18. CASE Commit
  BY <1>18, CommitOK
<1> QED
  BY <1>1, <1>2, <1>3, <1>4, <1>5, <1>6, <1>7, <1>8, <1>10, <1>11, <1>12, <1>13, <1>14,
     <1>15, <1>16, <1>17, <1>18 DEF ManagerNext

(* The invariant is inductive: requests do not touch the manager's state. *)
LEMMA ManagerInvNext ==
  ASSUME ManagerInv, [Next]_vars
  PROVE  ManagerInv'
<1>1. CASE ManagerNext
  BY <1>1, ManagerNextOK
<1>2. CASE Reconfigure
  BY <1>2, EarlyStepsOK DEF Reconfigure
<1>3. CASE CrashAll \/ StartAll
  BY <1>3, ProcessOK DEF CrashAll, StartAll
<1>4. CASE UNCHANGED reloadVars
  BY <1>4 DEF reloadVars, managerVars, ManagerInv, FileLoads, Shapes, OperationOK, Newest, ServedOK, Serving
<1>5. CASE UNCHANGED vars
  BY <1>4, <1>5 DEF vars
<1> QED
  BY <1>1, <1>2, <1>3, <1>4, <1>5 DEF Next

(* ... and so holds of every behaviour. *)
LEMMA ManagerCorrect == Spec => []ManagerInv
<1> QED
  BY ManagerStarts, ManagerInvNext, PTL DEF Spec

(* Whatever the manager writes to the file, restoring after a failed       *)
(* rollback included, loads at the next start.                             *)
THEOREM FileLoadsCorrect == Spec => []FileLoads
<1>1. ManagerInv => FileLoads
  BY DEF ManagerInv
<1> QED
  BY <1>1, ManagerCorrect, PTL

(* Between operations all listeners serve the running configuration,       *)
(* whichever steps failed and whenever the process crashed.                *)
THEOREM ServedAgreesCorrect == Spec => []ServedAgrees
<1>1. ManagerInv => ServedAgrees
  BY DEF ManagerInv, ServedOK, Serving, ServedAgrees
<1> QED
  BY <1>1, ManagerCorrect, PTL

(* Only these steps end an operation that is under way in a process that   *)
(* goes on.                                                                *)
LEMMA EndsBy ==
  ASSUME ManagerInv, [Next]_vars, op # NoOp, op' = NoOp, up'
  PROVE  \/ SaveFails \/ WriteFails \/ RollbackBuilds \/ SaveRunningFails
         \/ Restore \/ RestoreFails \/ Commit
<1>1. CASE ManagerNext
  <2>1. ~Idle /\ ~(\E content : EditFile(content))
    BY DEF Idle, EditFile
  <2>2. ~SaveFile /\ ~WriteFile /\ ~RollbackBuildFails /\ ~SaveRunning
    BY GoToOK DEF SaveFile, WriteFile, RollbackBuildFails, SaveRunning
  <2>3. ~ApplyRuntime
    <3>1. "at" \in DOMAIN op
      BY DEF ManagerInv, OperationOK
    <3>2. DOMAIN NoOp = {"kind"}
      BY DEF NoOp
    <3>3. ApplyRuntime => DOMAIN op' = DOMAIN op
      BY DEF ApplyRuntime
    <3> QED
      BY SMT, <3>1, <3>2, <3>3
  <2> QED
    BY <1>1, <2>1, <2>2, <2>3 DEF ManagerNext, UpdateConfig, MutateConfig, ApplyConfig, Rollback
<1>2. CASE Reconfigure
  BY <1>2, GoToOK DEF Reconfigure, ReconfigureTrackers
<1>3. CASE CrashAll \/ StartAll
  BY <1>3 DEF CrashAll, Crash, StartAll, Start
<1>4. CASE UNCHANGED reloadVars
  BY <1>4 DEF reloadVars, managerVars
<1>5. CASE UNCHANGED vars
  BY <1>4, <1>5 DEF vars
<1> QED
  BY <1>1, <1>2, <1>3, <1>4, <1>5 DEF Next

(* An operation that reports an error has not changed what is served, nor  *)
(* the file unless it could not write that back, and what is replaced for  *)
(* good is in the history (rollback, mutateConfig and applyConfigLocked of *)
(* reload.go).                                                             *)
THEOREM AllOrNothingCorrect == Spec => AllOrNothing
<1>1. ASSUME ManagerInv, [Next]_vars, op # NoOp, op' = NoOp, up', result' = "error"
      PROVE  /\ running' = running /\ served' = served
             /\ file' = op.file \/ ~Validate(op.file) \/ RestoreFails
             /\ file' = op.file \/ Contains(history', op.file)
  <2>1. CASE SaveFails
    BY <1>1, <2>1 DEF SaveFails, At, ManagerInv, OperationOK
  <2>2. CASE WriteFails
    BY <1>1, <2>2 DEF WriteFails, At, ManagerInv, OperationOK
  <2>3. CASE SaveRunningFails
    <3>1. op.kind # "rollback"
      <4>1. op.kind = "rollback" => GoTo("restore")
        BY <2>3 DEF SaveRunningFails
      <4> QED
        BY <1>1, <4>1, GoToOK
    <3>2. op.kind = "apply" /\ file = op.file
      BY <1>1, <2>3, <3>1 DEF SaveRunningFails, At, ManagerInv, OperationOK
    <3> QED
      BY <2>3, <3>2 DEF SaveRunningFails
  <2>4. CASE Restore \/ RestoreFails
    <3>1. Contains(history', op.file)
      BY <1>1, <2>4 DEF Restore, RestoreFails, At, ManagerInv, OperationOK
    <3> QED
      BY <2>4, <3>1 DEF Restore, RestoreFails
  <2>5. ~RollbackBuilds
    BY <1>1, GoToOK DEF RollbackBuilds, End
  <2>6. ~Commit
    BY <1>1 DEF Commit, End
  <2> QED
    BY <1>1, <2>1, <2>2, <2>3, <2>4, <2>5, <2>6, EndsBy
<1>2. ASSUME ManagerInv, WriteFile
      PROVE  Contains(history', file)
  <2>1. Contains(history, op.file) /\ file = op.file
    <3>1. op # NoOp /\ op.at = "write" /\ Shapes /\ OperationOK
      BY <1>2 DEF WriteFile, At, ManagerInv
    <3>2. Newest(op.file) /\ file = op.file
      BY <3>1 DEF OperationOK
    <3> QED
      BY <3>1, <3>2, NewestIn
  <2> QED
    BY <1>2, <2>1 DEF WriteFile
<1>3. ASSUME ManagerInv, Commit, op.kind # "mutate"
      PROVE  Contains(history', running)
  <2>1. Contains(history, running)
    BY <1>3 DEF Commit, At, ManagerInv, OperationOK
  <2> QED
    BY <1>3, <2>1 DEF Commit
<1> QED
  BY <1>1, <1>2, <1>3, ManagerCorrect, PTL DEF Spec, AllOrNothing

(* No mutation of one resource, of those the admin handlers build, takes   *)
(* the last source of a routed tag or a provider that has a price.         *)
THEOREM ReferencesKeptCorrect == Spec => ReferencesKept
<1>1. ASSUME ManagerInv, WriteFile, op.kind = "mutate"
      PROVE  Kept(file, file')
  <2>1. Kept(op.file, op.next) /\ file = op.file /\ op.at = "write"
    BY <1>1 DEF WriteFile, At, ManagerInv, OperationOK
  <2> QED
    BY <1>1, <2>1 DEF WriteFile
<1> QED
  BY <1>1, ManagerCorrect, PTL DEF Spec, ReferencesKept, Kept, HasOutbound

-----------------------------------------------------------------------------
(* The client quota *)

(* The requests of a client that have been let through and not yet charged. *)
Admitted(c) ==
  {q \in Requests : request[q] # None /\ request[q].at = "admitted" /\ request[q].client = c}

IsWindow(w) ==
  /\ DOMAIN w = {"window", "limit", "count", "top"}
  /\ w.count \in Nat /\ w.limit \in Nat /\ w.top \in Nat /\ w.limit > 0 /\ w.limit <= w.top

RequestsOK ==
  /\ DOMAIN request = Requests
  /\ \A q \in Requests : request[q] # None => {"at", "client"} \subseteq DOMAIN request[q]
  /\ \A c \in DOMAIN used : IsWindow(used[c])

(* What count and top allow when n requests are let through. *)
Bounded(w, n) == w.count + n <= w.top + Cardinality(Requests) - 1

(* Every request let through may still be charged. *)
QuotaInv ==
  /\ RequestsOK
  /\ \A c \in DOMAIN used : Bounded(used[c], Cardinality(Admitted(c)))

(* There are no more admitted requests than requests. *)
LEMMA AdmittedBound ==
  ASSUME NEW S \in SUBSET Requests
  PROVE  /\ IsFiniteSet(S) /\ Cardinality(S) \in Nat /\ Cardinality(Requests) \in Nat
         /\ Cardinality(S) <= Cardinality(Requests)
<1>1. IsFiniteSet(Requests)
  BY GatewayAssumption
<1> QED
  BY <1>1, FS_Subset, FS_CardinalityType

(* The window of a valid quota is one, and its top is no lower than before. *)
LEMMA WindowOfOK ==
  ASSUME NEW quota, quota.limit \in Nat, quota.limit > 0, NEW count \in Nat, NEW top \in Nat
  PROVE  /\ IsWindow(WindowOf(quota, count, top))
         /\ WindowOf(quota, count, top).count = count /\ WindowOf(quota, count, top).top >= top
BY SMT DEF IsWindow, WindowOf

(* A step that lets no request through and charges none, and takes a count *)
(* down if it changes it, never the limit it is held against, or starts    *)
(* one at 0.                                                               *)
LEMMA QuotaKept ==
  ASSUME QuotaInv, RequestsOK',
         \A c \in DOMAIN used' : Admitted(c)' \subseteq Admitted(c),
         \A c \in DOMAIN used' :
           \/ used'[c].count = 0
           \/ c \in DOMAIN used /\ used'[c].count <= used[c].count /\ used'[c].top >= used[c].top
  PROVE  QuotaInv'
<1> SUFFICES ASSUME NEW c \in DOMAIN used'
             PROVE  Bounded(used'[c], Cardinality(Admitted(c)'))
  BY DEF QuotaInv, Bounded
<1>1. Admitted(c)' \in SUBSET Requests /\ Admitted(c) \in SUBSET Requests
  BY DEF Admitted
<1>2. /\ IsFiniteSet(Admitted(c)) /\ Cardinality(Admitted(c)) \in Nat
      /\ Cardinality(Admitted(c)') \in Nat /\ Cardinality(Requests) \in Nat
      /\ Cardinality(Admitted(c)') <= Cardinality(Requests)
  BY <1>1, AdmittedBound
<1>3. Cardinality(Admitted(c)') <= Cardinality(Admitted(c))
  BY <1>2, FS_Subset
<1>4. IsWindow(used'[c])
  BY DEF RequestsOK
<1>5. CASE used'[c].count = 0
  BY SMT, <1>2, <1>4, <1>5 DEF Bounded, IsWindow
<1>6. CASE c \in DOMAIN used /\ used'[c].count <= used[c].count /\ used'[c].top >= used[c].top
  <2>1. IsWindow(used[c]) /\ Bounded(used[c], Cardinality(Admitted(c)))
    BY <1>6 DEF QuotaInv, RequestsOK
  <2> QED
    BY SMT, <1>2, <1>3, <1>4, <1>6, <2>1 DEF Bounded, IsWindow
<1> QED
  BY <1>5, <1>6

(* No client is over its limit initially. *)
LEMMA QuotaStarts == Init => QuotaInv
<1> SUFFICES ASSUME Init PROVE QuotaInv
  OBVIOUS
<1> USE DEF Init, GatewayInit
<1>1. \A c \in DOMAIN InitialConfig.quotas : InitialConfig.quotas[c].limit \in Nat /\ InitialConfig.quotas[c].limit > 0
  BY ReloadAssumption DEF Validate, validateClientQuota
<1>2. \A c \in DOMAIN used : IsWindow(used[c]) /\ used[c].count = 0
  BY <1>1, WindowOfOK, 0 \in Nat
<1>3. RequestsOK
  BY <1>2 DEF RequestsOK
<1>4. \A c : Admitted(c) = {}
  BY DEF Admitted
<1>5. Cardinality(Requests) \in Nat /\ Cardinality({}) = 0
  BY GatewayAssumption, FS_CardinalityType, FS_EmptySet
<1>6. \A c \in DOMAIN used : Bounded(used[c], Cardinality(Admitted(c)))
  <2> SUFFICES ASSUME NEW c \in DOMAIN used PROVE Bounded(used[c], 0)
    BY <1>4, <1>5
  <2> HIDE DEF Init, GatewayInit
  <2> QED
    BY SMT, <1>2, <1>5 DEF Bounded, IsWindow
<1> QED
  BY <1>3, <1>6 DEF QuotaInv

(* Admitting a request: its client was below the limit, and all requests   *)
(* together may take it no further than the bound.                         *)
LEMMA AdmitOK ==
  ASSUME QuotaInv, NEW q \in Requests, Admit(q)
  PROVE  QuotaInv'
<1> USE DEF Admit, InPhase, Proceed
<1>1. /\ DOMAIN request = Requests /\ {"at", "client"} \subseteq DOMAIN request[q]
      /\ used' = used
  BY DEF QuotaInv, RequestsOK
<1>2. /\ DOMAIN request' = Requests /\ request'[q].client = request[q].client
      /\ {"at", "client"} \subseteq DOMAIN request'[q]
      /\ \A p \in Requests \ {q} : request'[p] = request[p]
  BY <1>1
<1>3. RequestsOK'
  BY <1>1, <1>2 DEF QuotaInv, RequestsOK
<1> HIDE DEF Admit, InPhase, Proceed
<1> SUFFICES ASSUME NEW c \in DOMAIN used
             PROVE  Bounded(used[c], Cardinality(Admitted(c)'))
  BY <1>1, <1>3 DEF QuotaInv, Bounded
<1>4. Admitted(c)' \in SUBSET Requests /\ Admitted(c) \in SUBSET Requests
  BY DEF Admitted
<1>5. /\ IsFiniteSet(Admitted(c)) /\ Cardinality(Admitted(c)) \in Nat
      /\ Cardinality(Admitted(c)') \in Nat /\ Cardinality(Requests) \in Nat
      /\ Cardinality(Admitted(c)') <= Cardinality(Requests)
  BY <1>4, AdmittedBound
<1>6. IsWindow(used[c]) /\ Bounded(used[c], Cardinality(Admitted(c)))
  BY DEF QuotaInv, RequestsOK
<1>7. CASE c = request[q].client
  <2>1. used[c].count < used[c].limit
    BY <1>7 DEF Admit, BeforeClientRequest
  <2> QED
    BY SMT, <1>5, <1>6, <2>1 DEF Bounded, IsWindow
<1>8. CASE c # request[q].client
  <2>1. Admitted(c)' \subseteq Admitted(c)
    BY <1>2, <1>8 DEF Admitted
  <2>2. Cardinality(Admitted(c)') <= Cardinality(Admitted(c))
    BY <1>5, <2>1, FS_Subset
  <2> QED
    BY SMT, <1>5, <1>6, <2>2 DEF Bounded, IsWindow
<1> QED
  BY <1>7, <1>8

(* Charging a request moves it from the admitted to the used. *)
LEMMA ChargeOK ==
  ASSUME QuotaInv, NEW q \in Requests, recordClientRequest(q)
  PROVE  QuotaInv'
<1> USE DEF recordClientRequest, InPhase, Proceed
<1>1. DOMAIN request = Requests /\ {"at", "client"} \subseteq DOMAIN request[q]
  BY DEF QuotaInv, RequestsOK
<1>2. /\ DOMAIN request' = Requests /\ request'[q].at = "charged"
      /\ {"at", "client"} \subseteq DOMAIN request'[q]
      /\ \A p \in Requests \ {q} : request'[p] = request[p]
  BY <1>1
<1>3. /\ DOMAIN used' = DOMAIN used
      /\ \A c \in DOMAIN used :
           used'[c] = IF c = request[q].client THEN [used[c] EXCEPT !.count = @ + 1] ELSE used[c]
  OBVIOUS
<1>4. q \in Admitted(request[q].client)
  BY DEF Admitted
<1> HIDE DEF recordClientRequest, InPhase, Proceed
<1>5. \A c \in DOMAIN used :
        /\ IsWindow(used[c]) /\ used'[c].top = used[c].top
        /\ used'[c].count = IF c = request[q].client THEN used[c].count + 1 ELSE used[c].count
        /\ used'[c].limit = used[c].limit /\ DOMAIN used'[c] = DOMAIN used[c]
  BY <1>3 DEF QuotaInv, RequestsOK, IsWindow
<1>6. \A c \in DOMAIN used : IsWindow(used'[c])
  BY SMT, <1>5 DEF IsWindow
<1>7. RequestsOK'
  BY <1>2, <1>3, <1>6 DEF QuotaInv, RequestsOK
<1> SUFFICES ASSUME NEW c \in DOMAIN used
             PROVE  Bounded(used'[c], Cardinality(Admitted(c)'))
  BY <1>3, <1>7 DEF QuotaInv, Bounded
<1>8. Admitted(c)' \in SUBSET Requests /\ Admitted(c) \in SUBSET Requests
  BY DEF Admitted
<1>9. /\ IsFiniteSet(Admitted(c)) /\ Cardinality(Admitted(c)) \in Nat
      /\ Cardinality(Admitted(c)') \in Nat /\ Cardinality(Requests) \in Nat
  BY <1>8, AdmittedBound
<1>10. Bounded(used[c], Cardinality(Admitted(c)))
  BY DEF QuotaInv
<1>11. Admitted(c)' \subseteq Admitted(c) \ {q}
  BY <1>2 DEF Admitted
<1>12. /\ Cardinality(Admitted(c) \ {q}) =
             IF q \in Admitted(c) THEN Cardinality(Admitted(c)) - 1 ELSE Cardinality(Admitted(c))
       /\ IsFiniteSet(Admitted(c) \ {q})
  BY <1>9, FS_RemoveElement
<1>13. Cardinality(Admitted(c)') <= Cardinality(Admitted(c) \ {q})
  BY <1>11, <1>12, FS_Subset
<1>14. CASE c = request[q].client
  <2>1. Cardinality(Admitted(c) \ {q}) = Cardinality(Admitted(c)) - 1
    BY <1>4, <1>12, <1>14
  <2> QED
    BY SMT, <1>5, <1>9, <1>10, <1>13, <1>14, <2>1 DEF Bounded, IsWindow
<1>15. CASE c # request[q].client
  <2>1. Cardinality(Admitted(c) \ {q}) \in Int /\ Cardinality(Admitted(c) \ {q}) <= Cardinality(Admitted(c))
    BY ONLY <1>9, <1>12
  <2> QED
    BY SMT, <1>5, <1>9, <1>10, <1>13, <1>15, <2>1 DEF Bounded, IsWindow
<1> QED
  BY <1>14, <1>15

(* A request arrives, moves on after it was charged, or is answered. *)
LEMMA RequestOK ==
  ASSUME QuotaInv, NEW q \in Requests, UNCHANGED used,
         \/ \E r : /\ request' = [request EXCEPT ![q] = r]
                   /\ {"at", "client"} \subseteq DOMAIN r /\ r.at = "matched"
         \/ request' = [request EXCEPT ![q] = None]
         \/ /\ request[q] # None
            /\ \E steps : request' = [request EXCEPT ![q].at = "planned", ![q].steps = steps]
  PROVE  QuotaInv'
<1>1. DOMAIN request = Requests /\ (request[q] # None => {"at", "client"} \subseteq DOMAIN request[q])
  BY DEF QuotaInv, RequestsOK
<1>2. /\ DOMAIN request' = Requests
      /\ \A p \in Requests \ {q} : request'[p] = request[p]
      /\ \/ request'[q] = None
         \/ {"at", "client"} \subseteq DOMAIN request'[q] /\ request'[q].at # "admitted"
  BY <1>1
<1>3. RequestsOK'
  BY <1>2 DEF QuotaInv, RequestsOK
<1>4. \A c : Admitted(c)' \subseteq Admitted(c)
  BY <1>2 DEF Admitted
<1>5. \A c \in DOMAIN used : IsWindow(used[c])
  BY DEF QuotaInv, RequestsOK
<1>6. \A c \in DOMAIN used' :
        c \in DOMAIN used /\ used'[c].count <= used[c].count /\ used'[c].top >= used[c].top
  BY SMT, <1>5 DEF IsWindow
<1> QED
  BY <1>3, <1>4, <1>6, QuotaKept

(* A reload, a crash and a start change the tracker, or end the requests. *)
LEMMA TrackerOK ==
  ASSUME ManagerInv, QuotaInv, Reconfigure \/ CrashAll \/ StartAll
  PROVE  QuotaInv'
<1>1. \A c \in DOMAIN used : IsWindow(used[c]) /\ used[c].count \in Nat /\ used[c].top \in Nat
  BY DEF QuotaInv, RequestsOK, IsWindow
<1>2. ASSUME NEW quotas, \A c \in DOMAIN quotas : quotas[c].limit \in Nat /\ quotas[c].limit > 0,
             NEW known, request' = request, DOMAIN used' = DOMAIN quotas,
             \A c \in DOMAIN quotas :
               \/ used'[c] = WindowOf(quotas[c], 0, 0)
               \/ /\ c \in DOMAIN used /\ known[c] \in Nat /\ known[c] <= used[c].count
                  /\ used'[c] = WindowOf(quotas[c], known[c], used[c].top)
      PROVE  QuotaInv'
  <2>1. \A c \in DOMAIN used' :
          /\ IsWindow(used'[c])
          /\ \/ used'[c].count = 0
             \/ c \in DOMAIN used /\ used'[c].count <= used[c].count /\ used'[c].top >= used[c].top
    <3> SUFFICES ASSUME NEW c \in DOMAIN quotas
                 PROVE  /\ IsWindow(used'[c])
                        /\ \/ used'[c].count = 0
                           \/ c \in DOMAIN used /\ used'[c].count <= used[c].count /\ used'[c].top >= used[c].top
      BY <1>2
    <3>1. quotas[c].limit \in Nat /\ quotas[c].limit > 0
      BY <1>2
    <3>2. CASE used'[c] = WindowOf(quotas[c], 0, 0)
      BY SMT, <3>1, <3>2, WindowOfOK
    <3>3. CASE /\ c \in DOMAIN used /\ known[c] \in Nat /\ known[c] <= used[c].count
               /\ used'[c] = WindowOf(quotas[c], known[c], used[c].top)
      BY SMT, <1>1, <3>1, <3>3, WindowOfOK
    <3> QED
      BY <1>2, <3>2, <3>3
  <2>2. RequestsOK'
    BY <1>2, <2>1 DEF QuotaInv, RequestsOK
  <2>3. \A c : Admitted(c)' = Admitted(c)
    BY <1>2 DEF Admitted
  <2> QED
    BY <2>1, <2>2, <2>3, QuotaKept
<1>3. CASE Reconfigure
  <2>1. Validate(op.next) /\ request' = request /\ used' = ReconfigureClients(op.next.quotas)
    BY <1>3 DEF Reconfigure, ReconfigureTrackers, At, ManagerInv, OperationOK
  <2>2. \A c \in DOMAIN op.next.quotas : op.next.quotas[c].limit \in Nat /\ op.next.quotas[c].limit > 0
    BY <2>1 DEF Validate, validateClientQuota
  <2> DEFINE known == [c \in DOMAIN used |-> used[c].count]
  <2>3. \A c \in DOMAIN used : known[c] \in Nat /\ known[c] <= used[c].count
    BY SMT, <1>1
  <2>4. /\ DOMAIN used' = DOMAIN op.next.quotas
        /\ \A c \in DOMAIN op.next.quotas :
             \/ used'[c] = WindowOf(op.next.quotas[c], 0, 0)
             \/ c \in DOMAIN used /\ used'[c] = WindowOf(op.next.quotas[c], known[c], used[c].top)
    BY <2>1 DEF ReconfigureClients, SameWindow
  <2> HIDE DEF known
  <2> QED
    BY <1>2, <2>1, <2>2, <2>3, <2>4
<1>4. CASE CrashAll
  <2>1. request' = [q \in Requests |-> None] /\ used' = used
    BY <1>4 DEF CrashAll
  <2>2. RequestsOK'
    BY <1>1, <2>1 DEF RequestsOK
  <2>3. \A c : Admitted(c)' = {}
    BY <2>1 DEF Admitted
  <2>4. \A c \in DOMAIN used' :
          c \in DOMAIN used /\ used'[c].count <= used[c].count /\ used'[c].top >= used[c].top
    BY SMT, <1>1, <2>1
  <2> QED
    BY <2>2, <2>3, <2>4, QuotaKept
<1>5. CASE StartAll
  <2>1. PICK n \in {0} \cup {used[c].count : c \in DOMAIN used} :
          used' = [c \in DOMAIN file.quotas |->
                     IF SameWindow(c, file.quotas) /\ n <= used[c].count
                     THEN WindowOf(file.quotas[c], n, used[c].top) ELSE WindowOf(file.quotas[c], 0, 0)]
    BY <1>5 DEF StartAll
  <2>2. request' = request /\ Validate(file) /\ n \in Nat
    BY <1>1, <1>5, 0 \in Nat DEF StartAll, Start
  <2>3. \A c \in DOMAIN file.quotas : file.quotas[c].limit \in Nat /\ file.quotas[c].limit > 0
    BY <2>2 DEF Validate, validateClientQuota
  <2> DEFINE known == [c \in DOMAIN used |-> n]
  <2>4. /\ DOMAIN used' = DOMAIN file.quotas
        /\ \A c \in DOMAIN file.quotas :
             \/ used'[c] = WindowOf(file.quotas[c], 0, 0)
             \/ /\ c \in DOMAIN used /\ known[c] \in Nat /\ known[c] <= used[c].count
                /\ used'[c] = WindowOf(file.quotas[c], known[c], used[c].top)
    BY <2>1, <2>2 DEF SameWindow
  <2> HIDE DEF known
  <2> QED
    BY <1>2, <2>2, <2>3, <2>4
<1> QED
  BY <1>3, <1>4, <1>5

(* The bound with its strengthening is inductive. *)
LEMMA QuotaInvNext ==
  ASSUME ManagerInv, QuotaInv, [Next]_vars
  PROVE  QuotaInv'
<1>1. CASE UNCHANGED gatewayVars
  BY <1>1 DEF gatewayVars, QuotaInv, RequestsOK, Admitted
<1>2. CASE Reconfigure \/ CrashAll \/ StartAll
  BY <1>2, TrackerOK
<1>3. ASSUME NEW q \in Requests, NEW l \in 1 .. Listeners, NEW token, Match(q, l, token)
      PROVE  QuotaInv'
  <2>1. PICK c : request' = [request EXCEPT ![q] =
                   [at |-> "matched", listener |-> l, client |-> c,
                    tag |-> served[l].bindings[l][c], steps |-> <<>>]]
    BY <1>3 DEF Match
  <2>2. UNCHANGED used
    BY <1>3 DEF Match
  <2> DEFINE r == [at |-> "matched", listener |-> l, client |-> c,
                   tag |-> served[l].bindings[l][c], steps |-> <<>>]
  <2>3. request' = [request EXCEPT ![q] = r]
    BY <2>1
  <2>4. {"at", "client"} \subseteq DOMAIN r /\ r.at = "matched"
    OBVIOUS
  <2> HIDE DEF r
  <2> QED
    BY <2>2, <2>3, <2>4, RequestOK
<1>4. ASSUME NEW q \in Requests, Serve(q)
      PROVE  QuotaInv'
  <2>1. CASE Admit(q)
    BY <2>1, AdmitOK
  <2>2. CASE recordClientRequest(q)
    BY <2>2, ChargeOK
  <2>3. CASE Limit(q) \/ planFails(q) \/ Dispatched(q)
    BY <2>3, RequestOK DEF Limit, planFails, Dispatched, Reply
  <2>4. CASE planRequest(q)
    BY <2>4, RequestOK DEF planRequest, InPhase
  <2> QED
    BY <1>4, <2>1, <2>2, <2>3, <2>4 DEF Serve
<1>5. CASE UNCHANGED vars
  BY <1>1, <1>5 DEF vars
<1> QED
  BY <1>1, <1>2, <1>3, <1>4, <1>5 DEF Next, Unauthorized

(* A client goes past its limit by less than the requests in flight at     *)
(* once, however reloads and restarts fall between the look at the quota   *)
(* and the charge (handler.go:660-670).                                    *)
THEOREM ClientOvershootCorrect == Spec => []ClientOvershoot
<1>1. QuotaInv => ClientOvershoot
  <2> SUFFICES ASSUME QuotaInv, NEW c \in DOMAIN used
               PROVE  used[c].count <= used[c].top + Cardinality(Requests) - 1
    BY DEF ClientOvershoot
  <2>1. Admitted(c) \in SUBSET Requests
    BY DEF Admitted
  <2>2. Cardinality(Admitted(c)) \in Nat /\ Cardinality(Requests) \in Nat
    BY <2>1, AdmittedBound
  <2>3. IsWindow(used[c]) /\ Bounded(used[c], Cardinality(Admitted(c)))
    BY DEF QuotaInv, RequestsOK
  <2> QED
    BY SMT, <2>2, <2>3 DEF Bounded, IsWindow
<1> QED
  BY <1>1, ManagerCorrect, QuotaStarts, QuotaInvNext, PTL DEF Spec
=============================================================================
