------------------------------ MODULE MCGateway -----------------------------
(* An instance of Gateway for TLC: two listeners, a client and a rule on   *)
(* each side, and a few of each kind of request an administrator can make. *)
EXTENDS Gateway, TLC

Client(n, t, quota) == [name |-> n, token |-> t, quota |-> quota]
Quota(w, n) == [window |-> w, limit |-> n]
Binding(i, r, t) == [inbound |-> i, ref |-> r, tag |-> t]
Provider(n, t, e) == [name |-> n, tag |-> t, enabled |-> e]
Rule(n, f, t) ==
  [name |-> n, from |-> f, match |-> {}, to |-> t, strategy |-> "failover", weights |-> << >>]
Weighted(n, f, t, w) == [Rule(n, f, t) EXCEPT !.strategy = "weighted_round_robin", !.weights = w]

MCInitial ==
  [fixed |-> 1, admin |-> "ta",
   clients |-> ("c1" :> "t1"), quotas |-> ("c1" :> Quota("1h", 1)),
   bindings |-> <<("c1" :> "a"), << >> >>,
   outbounds |-> <<Provider("o1", "x", TRUE), Provider("o2", "y", TRUE)>>,
   rules |-> <<Rule("r1", {"a"}, <<"x">>), Rule("r2", {"b"}, <<"y">>)>>,
   pricing |-> {"o2"}]

MCHistories == {<<>>, <<[MCInitial EXCEPT !.fixed = 2]>>}

RequestSymmetry == Permutations(Requests)

MCClientSpecs ==
  {Client("c2", "t2", NoQuota), Client("c1", "t2", Quota("1h", 2)), Client("c2", "ta", NoQuota),
   Client("c1", Redacted, Quota("1d", 1))}
MCBindingSpecs == {Binding(2, "c1", "b"), Binding(1, "c1", "b"), Binding(2, "c2", "a")}
MCProviderSpecs == {Provider("o1", "x", FALSE), Provider("o2", "x", TRUE)}
MCRouteSpecs == {Rule("r1", {"a", "b"}, <<"x">>), Weighted("r2", {"a"}, <<"y">>, ("x" :> 1))}

MCSubmitted ==
  {[MCInitial EXCEPT !.fixed = 2],
   [MCInitial EXCEPT !.rules = <<>>],
   [MCInitial EXCEPT !.clients = ("c2" :> "t1"), !.quotas = << >>, !.bindings = <<("c2" :> "b"), << >> >>]}
=============================================================================
