------------------------------- MODULE Router -------------------------------
(***************************************************************************)
(* internal/router/router.go: which rule a request matches, which          *)
(* outbounds the rule stands for, and in what order they are tried.        *)
(*                                                                         *)
(* Outbounds are records [name, tag, enabled, models] and rules records    *)
(* [name, from, match, to, strategy, weights, modelMap].  match is the set *)
(* of model patterns, {} when the rule has none.  A model name is a        *)
(* sequence of letters, and a pattern one of letters and Star.             *)
(***************************************************************************)
EXTENDS Integers, Lists

CONSTANT Star    \* the letter "*"

-----------------------------------------------------------------------------
(* Model patterns *)

(* The parts of strings.Split(pattern, "*") that are not empty. *)
Literals(pattern) ==
  LET parts[i \in 0 .. Len(pattern)] ==
        IF i = 0 THEN <<>>
        ELSE IF pattern[i] = Star THEN parts[i - 1]
        ELSE IF i = 1 \/ pattern[i - 1] = Star THEN Append(parts[i - 1], <<pattern[i]>>)
        ELSE [parts[i - 1] EXCEPT ![Len(parts[i - 1])] = Append(@, pattern[i])]
  IN  parts[Len(pattern)]

compileModelPattern(pattern) ==
  [literals     |-> Literals(pattern),
   leadingStar  |-> Head(pattern) = Star,
   trailingStar |-> Last(pattern) = Star]

HasAt(value, position, literal) ==
  /\ position >= 0 /\ position + Len(literal) <= Len(value)
  /\ SubSeq(value, position + 1, position + Len(literal)) = literal

Fails == -1

(* Mutant: the suffix may overlap what earlier literals matched. *)
EndsWithOverlap(value, position, literal) == HasAt(value, Len(value) - Len(literal), literal)

(* The last literal, with no star after it, is a suffix not yet used. *)
EndsWith(value, position, literal) ==
  LET start == Len(value) - Len(literal)
  IN  start >= position /\ HasAt(value, start, literal)

(* The position after literal i of p has been found, from position on. *)
Advance(p, value, position, i) ==
  LET literal == p.literals[i]
      found == {k \in position .. Len(value) - Len(literal) : HasAt(value, k, literal)}
  IN  CASE position = Fails -> Fails
        [] position # Fails /\ i = 1 /\ ~p.leadingStar ->
             IF HasAt(value, 0, literal) THEN Len(literal) ELSE Fails
        [] position # Fails /\ i = Len(p.literals) /\ ~p.trailingStar /\ (i > 1 \/ p.leadingStar) ->
             IF EndsWith(value, position, literal) THEN Len(value) ELSE Fails
        [] OTHER -> IF found = {} THEN Fails ELSE Min(found) + Len(literal)

matches(p, value) ==
  LET after[i \in 0 .. Len(p.literals)] == IF i = 0 THEN 0 ELSE Advance(p, value, after[i - 1], i)
      end == after[Len(p.literals)]
  IN  p.literals = <<>> \/ (end # Fails /\ (p.trailingStar \/ end = Len(value)))

matchesModel(rule, model) ==
  rule.match = {} \/ \E pattern \in rule.match : matches(compileModelPattern(pattern), model)

-----------------------------------------------------------------------------
(* Outbounds *)

outboundByTag(outbounds, tag) ==
  FlattenSeq([i \in DOMAIN outbounds |->
    IF outbounds[i].enabled /\ outbounds[i].tag = tag THEN <<outbounds[i].name>> ELSE <<>>])

resolvedSet(outbounds, rule) ==
  FlattenSeq([i \in DOMAIN rule.to |-> outboundByTag(outbounds, rule.to[i])])

expandWeightedResolved(outbounds, rule) ==
  FlattenSeq([i \in DOMAIN rule.to |->
    FlattenSeq([k \in 1 .. rule.weights[rule.to[i]] |-> outboundByTag(outbounds, rule.to[i])])])

dedupePreserveOrder(values) ==
  LET ordered[i \in 0 .. Len(values)] ==
        IF i = 0 THEN <<>>
        ELSE IF values[i] \in ToSet(ordered[i - 1]) THEN ordered[i - 1]
        ELSE Append(ordered[i - 1], values[i])
  IN  ordered[Len(values)]

rotate(values, index) ==
  [i \in DOMAIN values |-> values[((i - 1 + index) % Len(values)) + 1]]

(* The outbounds a plan rotates over. *)
Cycle(outbounds, rule) ==
  IF rule.strategy = "weighted_round_robin"
  THEN expandWeightedResolved(outbounds, rule)
  ELSE resolvedSet(outbounds, rule)

(* The first rule the request matches, 0 if there is none. *)
matchRule(rules, tag, model) ==
  SelectInSeq(rules, LAMBDA rule : tag \in rule.from /\ matchesModel(rule, model))

(* The models of a name: the last enabled outbound of the name gives them. *)
modelsByTarget(outbounds, name) ==
  outbounds[Max({i \in DOMAIN outbounds : outbounds[i].enabled /\ outbounds[i].name = name})].models

-----------------------------------------------------------------------------
(* Model names *)

(* The entry of the model map for the model, or the one for "*". *)
resolveModel(rule, model) ==
  LET entries == DOMAIN rule.modelMap
  IN  IF model \in entries THEN rule.modelMap[model]
      ELSE IF <<Star>> \in entries THEN rule.modelMap[<<Star>>] ELSE model

(* What each name and alias of an outbound's models stands for; a later   *)
(* entry of the list overrides an earlier one.                            *)
NamesOfModel(m) == {m.name} \cup ToSet(m.aliases)

compileOutboundModels(models) ==
  [n \in UNION {NamesOfModel(models[k]) : k \in DOMAIN models} |->
     models[Max({k \in DOMAIN models : n \in NamesOfModel(models[k])})].name]

(* Names and aliases are all different (validateOutboundModels). *)
validateOutboundModels(models) ==
  LET names == FlattenSeq([i \in DOMAIN models |-> <<models[i].name>> \o models[i].aliases])
  IN  Cardinality(ToSet(names)) = Len(names)

(* The model to send, and whether the outbound does not offer it. *)
resolveOutboundModel(models, routed) ==
  LET resolved == compileOutboundModels(models)
  IN  IF routed \in DOMAIN resolved THEN <<resolved[routed], FALSE>>
      ELSE <<routed, models # <<>> >>
=============================================================================
