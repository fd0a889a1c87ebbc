------------------------------ MODULE Routing -------------------------------
(***************************************************************************)
(* A router at work: requests planned one after the other against one      *)
(* configuration (Router.Plan and Router.PlanDryRun), with the round-robin *)
(* counters the plans share.                                               *)
(***************************************************************************)
EXTENDS Router

CONSTANTS Models,          \* the models requests name
          RouterConfigs,   \* the configurations of the router: [rules, outbounds]
          NoPlan

(* What Validate and New ask of a rule's patterns, strategy and weights,  *)
(* and the types of the lists.                                            *)
Validated(c) ==
  /\ c.outbounds \in Seq(ToSet(c.outbounds)) /\ c.rules \in Seq(ToSet(c.rules))
  /\ \A rule \in ToSet(c.rules) :
       /\ \A p \in rule.match : p \in Seq(ToSet(p)) /\ p # <<>>
       /\ rule.to \in Seq(ToSet(rule.to))
       /\ rule.strategy \in {"failover", "round_robin", "weighted_round_robin"}
       /\ rule.strategy = "weighted_round_robin" =>
            \A tag \in ToSet(rule.to) : rule.weights[tag] \in Nat \ {0}
  /\ \A o \in ToSet(c.outbounds) :
       /\ o.models \in Seq(ToSet(o.models))
       /\ \A m \in ToSet(o.models) : m.aliases \in Seq(ToSet(m.aliases))

ASSUME RouterAssumption ==
  /\ \A c \in RouterConfigs : Validated(c)
  /\ \A model \in Models : model \in Seq(ToSet(model))

VARIABLES routerCfg, roundRobin, plan, firsts

routerVars == <<routerCfg, roundRobin, plan, firsts>>

RuleNames == {routerCfg.rules[i].name : i \in DOMAIN routerCfg.rules}

RoutingInit(configs) ==
  /\ routerCfg \in configs
  /\ roundRobin = [n \in RuleNames |-> 0]
  /\ plan = NoPlan
  /\ firsts = [n \in RuleNames |-> <<>>]

(* Mutant: the counter is advanced before it is read, and not taken back. *)
IndexSkips(name, size) ==
  /\ size > 0
  /\ roundRobin' = [roundRobin EXCEPT ![name] = (@ + 2) % size]

(* The counter's part of a plan; the index used is its value before. *)
nextRoundRobinIndex(name, size) ==
  /\ size > 0
  /\ roundRobin' = [roundRobin EXCEPT ![name] = (@ + 1) % size]

Steps(outbounds, rule, index) ==
  LET cycle == Cycle(outbounds, rule)
  IN  IF rule.strategy = "weighted_round_robin"
      THEN dedupePreserveOrder(rotate(cycle, index))
      ELSE rotate(cycle, index)

(* history: the last first choices of a rule, as many as its cycle is long *)
Remember(seen, first, size) ==
  IF Len(seen) < size THEN Append(seen, first) ELSE Append(Tail(seen), first)

ModelsOf(name) == modelsByTarget(routerCfg.outbounds, name)

(* A plan: its steps, and the model each is sent, with ModelUnavailable. *)
Outcome(tag, model, k, steps) ==
  [tag |-> tag, model |-> model, rule |-> k, steps |-> steps,
   sent |-> [i \in DOMAIN steps |->
     resolveOutboundModel(ModelsOf(steps[i]), resolveModel(routerCfg.rules[k], model))]]

(* A request that ends in a plan. *)
Plan(tag, model) ==
  LET k == matchRule(routerCfg.rules, tag, model)
      rule == routerCfg.rules[k]
      size == Len(Cycle(routerCfg.outbounds, rule))
      index == IF rule.strategy = "failover" THEN 0 ELSE roundRobin[rule.name] % size
      steps == Steps(routerCfg.outbounds, rule, index)
  IN  /\ k # 0 /\ resolvedSet(routerCfg.outbounds, rule) # <<>>
      /\ IF rule.strategy = "failover" THEN UNCHANGED roundRobin
         ELSE nextRoundRobinIndex(rule.name, size)
      /\ firsts' = [firsts EXCEPT ![rule.name] = Remember(@, Head(steps), size)]
      /\ plan' = Outcome(tag, model, k, steps)
      /\ UNCHANGED routerCfg

PlanDryRun(tag, model) ==
  LET k == matchRule(routerCfg.rules, tag, model)
  IN  /\ k # 0 /\ resolvedSet(routerCfg.outbounds, routerCfg.rules[k]) # <<>>
      /\ plan' = Outcome(tag, model, k, Steps(routerCfg.outbounds, routerCfg.rules[k], 0))
      /\ UNCHANGED <<routerCfg, roundRobin, firsts>>

(* No rule matches, or the one that does has no enabled outbound. *)
PlanFails(tag, model) ==
  LET k == matchRule(routerCfg.rules, tag, model)
  IN  /\ (IF k = 0 THEN TRUE ELSE resolvedSet(routerCfg.outbounds, routerCfg.rules[k]) = <<>>)
      /\ plan' = Outcome(tag, model, k, <<>>)
      /\ UNCHANGED <<routerCfg, roundRobin, firsts>>

Tags == UNION {routerCfg.rules[i].from : i \in DOMAIN routerCfg.rules}

RoutingNext ==
  \E tag \in Tags, model \in Models :
    Plan(tag, model) \/ PlanDryRun(tag, model) \/ PlanFails(tag, model)

RoutingSpec == RoutingInit(RouterConfigs) /\ [][RoutingNext]_routerVars

-----------------------------------------------------------------------------
(* What a pattern means: a star stands for any letters, also none.  Of     *)
(* each of the pattern's prefixes, the prefixes of the value it stands for *)
(* are told by their lengths.                                              *)
Glob(pattern, value) ==
  LET reach[i \in 0 .. Len(pattern)] ==
        IF i = 0 THEN {0}
        ELSE {j \in 0 .. Len(value) :
                IF pattern[i] = Star THEN \E k \in reach[i - 1] : k <= j
                ELSE j - 1 \in reach[i - 1] /\ value[j] = pattern[i]}
  IN  Len(value) \in reach[Len(pattern)]

Accepts(rule, tag, model) ==
  tag \in rule.from /\ (rule.match = {} \/ \E p \in rule.match : Glob(p, model))

(* A request goes to the first rule, in the order of the configuration,   *)
(* that its tag and its model satisfy when patterns are read as globs:    *)
(* the greedy matcher over a pattern's literals (wildcardPattern.matches) *)
(* loses no match by taking each literal where it first occurs.           *)
FirstGlobMatch ==
  plan # NoPlan =>
    LET accepting == {i \in DOMAIN routerCfg.rules :
                        Accepts(routerCfg.rules[i], plan.tag, plan.model)}
    IN  plan.rule = IF accepting = {} THEN 0 ELSE Min(accepting)

(* However the counters stand, a plan tries exactly the enabled outbounds *)
(* that the matched rule's tags name: rotating and removing the repeats   *)
(* that weights bring loses none.                                         *)
PlanReachesAll ==
  (plan # NoPlan /\ plan.rule # 0) =>
    LET to == ToSet(routerCfg.rules[plan.rule].to)
        wanted == {o \in ToSet(routerCfg.outbounds) : o.enabled /\ o.tag \in to}
    IN  /\ ToSet(plan.steps) = {o.name : o \in wanted}
        /\ routerCfg.rules[plan.rule].strategy = "weighted_round_robin" =>
             Cardinality(ToSet(plan.steps)) = Len(plan.steps)

Share(rule, o) == IF rule.strategy = "weighted_round_robin" THEN rule.weights[o.tag] ELSE 1

(* Rules, outbounds and the tags of a rule are told apart by their names,  *)
(* as in any sensible configuration; Validate and New do not ask for it.   *)
ToldApart ==
  /\ \A i, j \in DOMAIN routerCfg.rules :
       routerCfg.rules[i].name = routerCfg.rules[j].name => i = j
  /\ \A i, j \in DOMAIN routerCfg.outbounds :
       routerCfg.outbounds[i].name = routerCfg.outbounds[j].name => i = j
  /\ \A rule \in ToSet(routerCfg.rules) : \A i, j \in DOMAIN rule.to :
       rule.to[i] = rule.to[j] => i = j

(* In any run of plans as long as a rule's cycle, interleaved with plans   *)
(* of other rules and with dry runs, each outbound comes first as often as *)
(* its weight says (nextRoundRobinIndex, rotate, expandWeightedResolved).  *)
RoundRobinFair ==
  ToldApart =>
  \A i \in DOMAIN routerCfg.rules :
    LET rule == routerCfg.rules[i]
        seen == firsts[rule.name]
    IN  (rule.strategy # "failover" /\ Len(seen) = Len(Cycle(routerCfg.outbounds, rule))) =>
          \A o \in ToSet(routerCfg.outbounds) : (o.enabled /\ o.tag \in ToSet(rule.to)) =>
            Cardinality({k \in DOMAIN seen : seen[k] = o.name}) = Share(rule, o)

(* Each step carries the canonical name of the one declared model that the *)
(* routed name or alias stands for, and is marked unavailable exactly when *)
(* the outbound declares models and none has it: in a list                 *)
(* validateOutboundModels accepts, no later entry takes over an earlier    *)
(* one in the table compileOutboundModels builds.                          *)
AliasesResolve ==
  plan # NoPlan =>
    \A i \in DOMAIN plan.steps :
      LET models == ModelsOf(plan.steps[i])
          routed == resolveModel(routerCfg.rules[plan.rule], plan.model)
          offers(k) == routed \in NamesOfModel(models[k])
      IN  validateOutboundModels(models) =>
            /\ \A k \in DOMAIN models : offers(k) => plan.sent[i] = <<models[k].name, FALSE>>
            /\ plan.sent[i][2] = (models # <<>> /\ ~\E k \in DOMAIN models : offers(k))

(* The plan of a request is what the configuration says, whatever requests *)
(* came before: the rule, the outbounds and the model sent to each.        *)
PlanAsConfigured == FirstGlobMatch /\ PlanReachesAll /\ AliasesResolve
=============================================================================
