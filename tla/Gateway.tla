------------------------------- MODULE Gateway ------------------------------
(***************************************************************************)
(* Requests through internal/gateway/handler.go while the configuration    *)
(* changes under them.  handleRequest loads the handler's RuntimeState     *)
(* afresh wherever it needs it: to match the token, to look at the client  *)
(* quota, to charge it and, after the body has been read, to plan.  The    *)
(* client quota tracker is one for all of these states; it is reconfigured *)
(* in place.  What Dispatch does with a plan is Dispatcher.tla's subject.  *)
(***************************************************************************)
EXTENDS Reload, Router

CONSTANTS Requests,      \* the requests there can be at a time
          Model          \* the model they name

ASSUME GatewayAssumption == IsFiniteSet(Requests)

VARIABLES request,   \* per request [at, listener, client, tag, steps], or None
          used       \* clientQuotaTracker, per client with a quota: [window, limit, count],
                     \* and the highest limit, top, there was since the count began

gatewayVars == <<request, used>>
vars == <<reloadVars, gatewayVars>>

(* The state of a client's window.                                         *)
WindowOf(quota, count, top) ==
  [window |-> quota.window, limit |-> quota.limit, count |-> count,
   top |-> IF top > quota.limit THEN top ELSE quota.limit]

GatewayInit ==
  /\ request = [q \in Requests |-> None]
  /\ used = [c \in DOMAIN InitialConfig.quotas |-> WindowOf(InitialConfig.quotas[c], 0, 0)]

InPhase(q, step) == up /\ request[q] # None /\ request[q].at = step

Proceed(q, step) == request' = [request EXCEPT ![q].at = step]

Reply(q) == request' = [request EXCEPT ![q] = None]

(* matchInbound: the listener's inbound has a binding whose client has the token. *)
Match(q, l, token) ==
  LET state == served[l]
  IN  /\ up /\ request[q] = None
      /\ \E c \in DOMAIN state.bindings[l] :
           /\ state.clients[c] = token
           /\ request' = [request EXCEPT ![q] =
                [at |-> "matched", listener |-> l, client |-> c,
                 tag |-> state.bindings[l][c], steps |-> <<>>]]
      /\ UNCHANGED used

(* The answer is 401, and nothing changes. *)
Unauthorized(q, l, token) ==
  /\ up /\ request[q] = None
  /\ \A c \in DOMAIN served[l].bindings[l] : served[l].clients[c] # token
  /\ UNCHANGED gatewayVars

(* Mutant: the last request of a window is let through twice. *)
AllowsOneMore(c) == IF c \in DOMAIN used THEN used[c].count <= used[c].limit ELSE TRUE

(* A client without a quota is not limited. *)
BeforeClientRequest(c) == IF c \in DOMAIN used THEN used[c].count < used[c].limit ELSE TRUE

Admit(q) ==
  /\ InPhase(q, "matched")
  /\ BeforeClientRequest(request[q].client)
  /\ Proceed(q, "admitted")
  /\ UNCHANGED used

Limit(q) ==
  /\ InPhase(q, "matched")
  /\ ~BeforeClientRequest(request[q].client)
  /\ Reply(q)
  /\ UNCHANGED used

recordClientRequest(q) ==
  /\ InPhase(q, "admitted")
  /\ used' = (IF request[q].client \in DOMAIN used
              THEN [used EXCEPT ![request[q].client].count = @ + 1] ELSE used)
  /\ Proceed(q, "charged")

(* planRequest: the router is the one served now, the tag the matched one. *)
Planned(q) ==
  LET state == served[request[q].listener]
      k == matchRule(state.rules, request[q].tag, Model)
  IN  IF k = 0 THEN <<>> ELSE resolvedSet(state.outbounds, state.rules[k])

planRequest(q) ==
  /\ InPhase(q, "charged")
  /\ Planned(q) # <<>>
  /\ request' = [request EXCEPT ![q].at = "planned", ![q].steps = Planned(q)]
  /\ UNCHANGED used

(* No rule, or no enabled outbound: writeRoutingError. *)
planFails(q) ==
  /\ InPhase(q, "charged")
  /\ Planned(q) = <<>>
  /\ Reply(q)
  /\ UNCHANGED used

Dispatched(q) ==
  /\ InPhase(q, "planned")
  /\ Reply(q)
  /\ UNCHANGED used

Serve(q) ==
  Admit(q) \/ Limit(q) \/ recordClientRequest(q) \/ planRequest(q) \/ planFails(q) \/ Dispatched(q)

(* compatible: a window whose type or duration has changed starts clean.   *)
SameWindow(c, quotas) == c \in DOMAIN used /\ used[c].window = quotas[c].window

(* ReconfigureClientSpecs: the tracker for the quotas of a configuration,  *)
(* with the counts of the windows that have not changed.                   *)
ReconfigureClients(quotas) ==
  [c \in DOMAIN quotas |->
     IF SameWindow(c, quotas) THEN WindowOf(quotas[c], used[c].count, used[c].top) ELSE WindowOf(quotas[c], 0, 0)]

Reconfigure ==
  /\ ReconfigureTrackers
  /\ used' = ReconfigureClients(op.next.quotas)
  /\ UNCHANGED request

(* The requests under way end with the process. *)
CrashAll ==
  /\ Crash
  /\ request' = [q \in Requests |-> None]
  /\ UNCHANGED used

(* The tracker starts from the last quota snapshot, which knows the first  *)
(* requests counted, the most recent ones perhaps not.                     *)
StartAll ==
  /\ Start
  /\ \E known \in {0} \cup {used[c].count : c \in DOMAIN used} :
       used' = [c \in DOMAIN file.quotas |->
                  IF SameWindow(c, file.quotas) /\ known <= used[c].count
                  THEN WindowOf(file.quotas[c], known, used[c].top) ELSE WindowOf(file.quotas[c], 0, 0)]
  /\ UNCHANGED request

Tokens == {Redacted} \cup UNION {Range(served[l].clients) : l \in 1 .. Listeners}

Next ==
  \/ ManagerNext /\ UNCHANGED gatewayVars
  \/ Reconfigure \/ CrashAll \/ StartAll
  \/ \E q \in Requests :
       \/ \E l \in 1 .. Listeners, token \in Tokens :
            (Match(q, l, token) \/ Unauthorized(q, l, token)) /\ UNCHANGED reloadVars
       \/ Serve(q) /\ UNCHANGED reloadVars

Init == ReloadInit /\ GatewayInit

Spec == Init /\ [][Next]_vars

-----------------------------------------------------------------------------
Steps == {"history", "write", "build", "save running", "restore", "trackers", "swap"}

TypeOK ==
  /\ {up, edited} \subseteq BOOLEAN
  /\ Len(history) <= HistoryLimit
  /\ op # NoOp => /\ up
                  /\ op.kind \in {"mutate", "apply", "rollback"}
                  /\ op.at \in Steps /\ op.swapped \in 0 .. Listeners
  /\ result \in {"ok", "error", "restart"}
  /\ \A q \in Requests : request[q] # None =>
       /\ request[q].at \in {"matched", "admitted", "charged", "planned"}
       /\ request[q].listener \in 1 .. Listeners
  /\ \A c \in DOMAIN used : used[c].count \in Nat /\ used[c].limit \in 1 .. used[c].top

(* A client is let past its limit only by requests it has in flight at     *)
(* once: the quota is looked at and charged in two steps, under reloads    *)
(* between them that change the limit or the window, or take the client's  *)
(* quota away and give it back (handler.go:660-670, mergeWindows).  The    *)
(* limit is the highest the window has had since it began to count.        *)
ClientOvershoot ==
  \A c \in DOMAIN used : used[c].count <= used[c].top + Cardinality(Requests) - 1
=============================================================================
