--------------------------- MODULE ConfigResources ---------------------------
(***************************************************************************)
(* The configuration as the admin interface edits it: what Validate        *)
(* accepts (internal/config/config.go), the resource operations            *)
(* (internal/config/resources.go), and the mutations the admin handlers    *)
(* build from them (internal/gateway/admin_config_resources.go).           *)
(*                                                                         *)
(* A configuration is a record:                                            *)
(*   fixed      what only a restart can change: listeners, logging, the    *)
(*              OAuth directory and session snapshots                      *)
(*   admin      admin.token                                                *)
(*   clients    client name -> token                                       *)
(*   quotas     client name -> [window, limit], of clients that have a     *)
(*              quota: what identifies its window (type and duration), and *)
(*              its max_requests                                           *)
(*   bindings   inbound name -> (client name -> tag)                       *)
(*   outbounds  a sequence of [name, tag, enabled]; names may repeat       *)
(*   rules      a sequence of [name, from, to, strategy, weights, ...]     *)
(*   pricing    the provider names accounting.pricing refers to            *)
(* Fields with no reference to another part of the configuration are left  *)
(* out.  Clients and bindings are functions because Validate refuses a     *)
(* repeated client name, and a repeated ref within an inbound.             *)
(***************************************************************************)
EXTENDS Integers, Lists

CONSTANTS Redacted,       \* config.RedactedValue, or no token at all
          ClientSpecs,    \* the clients an admin may submit: [name, token, quota]
          BindingSpecs,   \* the bindings: [inbound, ref, tag]
          ProviderSpecs,  \* the outbounds
          RouteSpecs      \* the routing rules

ASSUME ConfigAssumption == \A p \in ProviderSpecs : "name" \in DOMAIN p

(* What has the shape of a configuration. *)
Fields == {"fixed", "admin", "clients", "quotas", "bindings", "outbounds", "rules", "pricing"}

IsConfig(c) ==
  /\ Fields \subseteq DOMAIN c
  /\ c.outbounds \in Seq(ToSet(c.outbounds))
  /\ \A i \in DOMAIN c.outbounds : "name" \in DOMAIN c.outbounds[i]

-----------------------------------------------------------------------------
(* Validate *)

ValidateClients(c) ==
  /\ Redacted \notin Range(c.clients)
  /\ \A m, n \in DOMAIN c.clients : c.clients[m] = c.clients[n] => m = n

ValidateInbounds(c) ==
  \A i \in DOMAIN c.bindings : DOMAIN c.bindings[i] \subseteq DOMAIN c.clients

(* A window that limits requests; those of tokens and costs are left out. *)
validateClientQuota(c) ==
  /\ DOMAIN c.quotas \subseteq DOMAIN c.clients
  /\ \A n \in DOMAIN c.quotas : c.quotas[n].limit \in Nat /\ c.quotas[n].limit > 0

validateAdmin(c) == c.admin \notin Range(c.clients)

OutboundTags(c) == {c.outbounds[i].tag : i \in DOMAIN c.outbounds}

ValidateRule(c, rule) ==
  /\ rule.from # {} /\ rule.to # <<>>
  /\ ToSet(rule.to) \subseteq OutboundTags(c)
  /\ DOMAIN rule.weights =
       IF rule.strategy = "weighted_round_robin" THEN ToSet(rule.to) ELSE {}
  /\ \A tag \in DOMAIN rule.weights : rule.weights[tag] > 0

Validate(c) ==
  /\ c.outbounds # <<>> /\ c.rules # <<>>
  /\ ValidateClients(c) /\ validateClientQuota(c) /\ ValidateInbounds(c) /\ validateAdmin(c)
  /\ \A i \in DOMAIN c.rules : ValidateRule(c, c.rules[i])

-----------------------------------------------------------------------------
(* The resource operations of resources.go. *)

(* The upserts of outbounds and rules: replace the first of that name, or append. *)
Upsert(items, next) ==
  LET i == SelectInSeq(items, LAMBDA item : item.name = next.name)
  IN  IF i = 0 THEN Append(items, next) ELSE ReplaceAt(items, i, next)

(* The items of other names, in their order. *)
DeleteNamed(items, name) ==
  LET keep == {i \in DOMAIN items : items[i].name # name}
  IN  [k \in 1 .. Cardinality(keep) |->
         items[CHOOSE i \in keep : Cardinality({j \in keep : j <= i}) = k]]

(* The map m with an entry added or replaced. *)
With(m, key, value) == [k \in DOMAIN m \cup {key} |-> IF k = key THEN value ELSE m[k]]

(* The map m without the entry of a key. *)
Without(m, key) == Restrict(m, DOMAIN m \ {key})

(* quota is NoQuota when it is not enabled. *)
NoQuota == [window |-> "none", limit |-> 0]

UpsertClient(c, name, token, quota) ==
  [c EXCEPT !.clients = With(@, name, token),
            !.quotas = IF quota = NoQuota THEN Without(@, name) ELSE With(@, name, quota)]

DeleteClient(c, name) == [c EXCEPT !.clients = Without(@, name), !.quotas = Without(@, name)]

UpsertBinding(c, inbound, ref, tag) ==
  [c EXCEPT !.bindings[inbound] = With(@, ref, tag)]

DeleteBinding(c, inbound, ref) ==
  [c EXCEPT !.bindings[inbound] = Without(@, ref)]

ClientBindings(c, name) == {i \in DOMAIN c.bindings : name \in DOMAIN c.bindings[i]}

UpsertOutbound(c, next) == [c EXCEPT !.outbounds = Upsert(@, next)]

DeleteOutbound(c, name) == [c EXCEPT !.outbounds = DeleteNamed(@, name)]

UpsertRoute(c, next) == [c EXCEPT !.rules = Upsert(@, next)]

DeleteRoute(c, name) == [c EXCEPT !.rules = DeleteNamed(@, name)]

SetOutboundEnabled(c, name, enabled) ==
  [c EXCEPT !.outbounds[SelectInSeq(c.outbounds, LAMBDA o : o.name = name)].enabled = enabled]

MoveRoute(c, from, to) ==
  [c EXCEPT !.rules = InsertAt(RemoveAt(@, from), to, c.rules[from])]

PreserveSecret(next, current) == IF next = Redacted THEN current ELSE next

-----------------------------------------------------------------------------
(* What a binding or a provider is needed for. *)

RoutedTags(c) == UNION {c.rules[i].from : i \in DOMAIN c.rules}

Sources(c, tag) ==
  {s \in (DOMAIN c.bindings) \X (DOMAIN c.clients) :
     s[2] \in DOMAIN c.bindings[s[1]] /\ c.bindings[s[1]][s[2]] = tag}

(* Mutant: the binding being removed counts as another source of its tag. *)
TagRemovalCountsItself(c, inbound, ref, tag) ==
  Sources(c, tag) # {} \/ tag \notin RoutedTags(c)

validateClientTagRemoval(c, inbound, ref, tag) ==
  Sources(c, tag) \ {<<inbound, ref>>} # {} \/ tag \notin RoutedTags(c)

(* The tag looked at is that of the first outbound of the name. *)
validateProviderDelete(c, name) ==
  LET i == SelectInSeq(c.outbounds, LAMBDA o : o.name = name)
  IN  /\ i # 0
      /\ \A k \in DOMAIN c.rules :
           c.outbounds[i].tag \notin ToSet(c.rules[k].to) \cup DOMAIN c.rules[k].weights
      /\ name \notin c.pricing

-----------------------------------------------------------------------------
(* The mutation each admin handler hands to MutateConfig: the set of        *)
(* configurations it can turn c into.  A refused request is not in the set. *)

ProviderUpserts(c) == {UpsertOutbound(c, next) : next \in ProviderSpecs}

ProviderDeletes(c) ==
  {DeleteOutbound(c, name) : name \in {p.name : p \in
     {q \in ProviderSpecs : validateProviderDelete(c, q.name)}}}

ProviderEnables(c) ==
  {SetOutboundEnabled(c, p.name, p.enabled) : p \in
     {q \in ProviderSpecs : \E i \in DOMAIN c.outbounds : c.outbounds[i].name = q.name}}

ClientUpserts(c) ==
  {IF s.name \in DOMAIN c.clients
   THEN UpsertClient(c, s.name, PreserveSecret(s.token, c.clients[s.name]), s.quota)
   ELSE UpsertClient(c, s.name, s.token, s.quota) :
     s \in {t \in ClientSpecs : t.token # Redacted \/ t.name \in DOMAIN c.clients}}

ClientDeletes(c) ==
  {DeleteClient(c, name) : name \in {n \in DOMAIN c.clients : ClientBindings(c, n) = {}}}

BindingUpserts(c) ==
  {UpsertBinding(c, b.inbound, b.ref, b.tag) : b \in
     {s \in BindingSpecs :
        /\ s.inbound \in DOMAIN c.bindings
        /\ LET current == c.bindings[s.inbound]
           IN  (s.ref \in DOMAIN current /\ current[s.ref] # s.tag)
                 => validateClientTagRemoval(c, s.inbound, s.ref, current[s.ref])}}

BindingDeletes(c) ==
  UNION {{DeleteBinding(c, i, ref) : ref \in
            {r \in DOMAIN c.bindings[i] :
               validateClientTagRemoval(c, i, r, c.bindings[i][r])}} :
         i \in DOMAIN c.bindings}

RouteUpserts(c) == {UpsertRoute(c, next) : next \in RouteSpecs}

RouteDeletes(c) == {DeleteRoute(c, c.rules[i].name) : i \in DOMAIN c.rules}

(* expected is the RouteOrderRevision the console read: a hash of the rules. *)
RouteReorders(c, expected) ==
  {MoveRoute(c, m[1], m[2]) : m \in
     {n \in (DOMAIN c.rules) \X (DOMAIN c.rules) : n[1] # n[2] /\ expected = c.rules}}
=============================================================================
