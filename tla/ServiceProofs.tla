---------------------------- MODULE ServiceProofs ----------------------------
(***************************************************************************)
(* Proofs about the services around the dispatcher: the OAuth manager, for *)
(* any number of requests, pollers, flows and tokens and any number of     *)
(* lost answers; the rotation of API keys, for any number of keys and of   *)
(* calls; and agent sessions, for any lease, retention and transient time, *)
(* any hook events and any number of faults and restarts.                  *)
(***************************************************************************)
EXTENDS OAuth, ApiKeys, Sessions, FiniteSetTheorems, TLAPS

(* Zenon finds the proof of a leaf that does not name a prover.            *)
USE Zenon

-----------------------------------------------------------------------------
(* The OAuth manager *)

OAuthSpec ==
  /\ \E parties \in SUBSET (Callers \cup Pollers) : OAuthInit(parties)
  /\ [][OAuthNext]_oauthVars

Credentials == [access : Nat, refresh : Nat, fresh : BOOLEAN]

CallerStates ==
  [at : {"start", "load", "refresh", "asked", "answered", "send", "done", "failed"},
   force : BOOLEAN, has : Credentials \cup {NoCredential},
   next : Credentials \cup {NoCredential}, tries : {0, 1}]

PollerStates == [at : {"idle", "asking", "exchange", "done"}, flow : Flows \cup {0}]

OAuthTypeOK ==
  /\ credential \in Credentials \cup {NoCredential}
  /\ refreshMu \subseteq Callers /\ invalidated \in BOOLEAN
  /\ caller \in [Callers -> CallerStates]
  /\ flows \in [Flows -> {"new", "claude", "codex", "gone"}]
  /\ poller \in [Pollers -> PollerStates]
  /\ saves \in [Flows -> Nat] /\ issued \in Nat

(***************************************************************************)
(* The refresh token of the file is one the server takes, or its answer    *)
(* was lost, or the holder of the lock has just exchanged it and is about  *)
(* to save another.  Only the holder of the lock is refreshing.            *)
(***************************************************************************)
Refreshes(c) == caller[c].at \in {"asked", "answered"}

RefreshInv ==
  /\ \A c \in Callers : Refreshes(c) <=> c \in refreshMu
  /\ \A c, d \in refreshMu : c = d
  /\ \A c \in refreshMu : caller[c].has \in Credentials
  /\ \A c \in Callers : caller[c].at = "asked" => caller[c].has.refresh \in honoured \cup lost
  /\ \A c \in Callers : caller[c].at = "answered" =>
       caller[c].next \in Credentials /\ caller[c].next.refresh \in honoured
  /\ credential # NoCredential =>
       \/ credential.refresh \in {0} \cup honoured \cup lost
       \/ \E c \in Callers : caller[c].at = "answered" /\ caller[c].has.refresh = credential.refresh
  /\ credential = NoCredential => refreshMu \subseteq deleted

(***************************************************************************)
(* A flow is exchanged by one request at most, which has taken it out of   *)
(* the table, and has given no credential before.                          *)
(***************************************************************************)
FlowInv ==
  /\ \A p \in Pollers : poller[p].at \in {"asking", "exchange"} => poller[p].flow \in Flows
  /\ \A p \in Pollers : poller[p].at = "exchange" =>
       flows[poller[p].flow] = "gone" /\ saves[poller[p].flow] = 0
  /\ \A p, q \in Pollers : poller[p].at = "exchange" /\ poller[q].at = "exchange"
       /\ poller[p].flow = poller[q].flow => p = q
  /\ \A f \in Flows : saves[f] <= 1 /\ (flows[f] # "gone" => saves[f] = 0)

OAuthInv == OAuthTypeOK /\ RefreshInv /\ FlowInv

-----------------------------------------------------------------------------
(* Every behaviour begins with the invariant.                              *)
LEMMA OAuthInitOK ==
  ASSUME NEW parties \in SUBSET (Callers \cup Pollers), OAuthInit(parties)
  PROVE  OAuthInv
<1>1. OAuthTypeOK
  BY DEF OAuthInit, OAuthTypeOK, Credential, Credentials, Idle, CallerStates, PollerStates
<1>2. RefreshInv
  BY DEF OAuthInit, RefreshInv, Refreshes, Credential, Idle
<1>3. FlowInv
  BY SMT DEF OAuthInit, FlowInv
<1> QED BY <1>1, <1>2, <1>3 DEF OAuthInv

(* An idle request, and the credential a token makes.                      *)
LEMMA RecordsOK ==
  /\ \A at \in {"start", "done", "failed"} : Idle(at) \in CallerStates /\ Idle(at).at = at
  /\ \A a, r \in Nat : Credential(a, r) \in Credentials /\ Credential(a, r).refresh = r
                       /\ Credential(a, r) # NoCredential
<1>1. \A at \in {"start", "done", "failed"} : Idle(at) \in CallerStates /\ Idle(at).at = at
  BY DEF Idle, CallerStates
<1>2. \A a, r \in Nat : Credential(a, r) \in Credentials /\ Credential(a, r).refresh = r
  BY DEF Credential, Credentials
<1>3. NoCredential \notin Credentials
  BY OAuthAssumption DEF Credentials
<1> QED BY <1>1, <1>2, <1>3

(* A step of one request leaves the others as they were.                   *)
LEMMA OneCaller ==
  ASSUME OAuthTypeOK, NEW c \in Callers, NEW new \in CallerStates, caller' = [caller EXCEPT ![c] = new]
  PROVE  /\ caller' \in [Callers -> CallerStates] /\ caller'[c] = new
         /\ \A d \in Callers : d # c => caller'[d] = caller[d]
  BY DEF OAuthTypeOK

(* A step of a request that does not refresh, before and after it.         *)
LEMMA QuietCaller ==
  ASSUME OAuthInv, NEW c \in Callers, NEW new \in CallerStates, caller' = [caller EXCEPT ![c] = new],
         ~Refreshes(c), new.at \notin {"asked", "answered"}, invalidated' \in BOOLEAN,
         UNCHANGED <<credential, refreshMu, flowVars, tokenVars, deleted>>
  PROVE  OAuthInv'
<1>1. /\ caller' \in [Callers -> CallerStates] /\ caller'[c] = new
      /\ \A d \in Callers : d # c => caller'[d] = caller[d]
  BY OneCaller DEF OAuthInv
<1>2. OAuthTypeOK' /\ FlowInv'
  BY <1>1 DEF OAuthInv, OAuthTypeOK, FlowInv, flowVars, tokenVars
<1>3. c \notin refreshMu /\ refreshMu \subseteq Callers
  BY DEF OAuthInv, RefreshInv, OAuthTypeOK
<1>4. RefreshInv'
  BY <1>1, <1>3 DEF OAuthInv, RefreshInv, Refreshes, tokenVars
<1> QED BY <1>2, <1>4 DEF OAuthInv

(* AskSource.                                                              *)
LEMMA AskSourceOK == ASSUME OAuthInv, NEW c \in Callers, AskSource(c) PROVE OAuthInv'
<1> DEFINE new == [caller[c] EXCEPT !.at = "load", !.force = invalidated]
<1>1. caller[c] \in CallerStates /\ invalidated \in BOOLEAN
  BY DEF OAuthInv, OAuthTypeOK
<1>2. new \in CallerStates /\ new.at = "load"
  BY <1>1 DEF CallerStates
<1>3. caller' = [caller EXCEPT ![c] = new]
  BY DEF AskSource, OAuthInv, OAuthTypeOK
<1>4. ~Refreshes(c) /\ invalidated' \in BOOLEAN /\ UNCHANGED <<credential, refreshMu, flowVars, tokenVars, deleted>>
  BY DEF AskSource, Refreshes
<1> HIDE DEF new
<1> QED BY <1>2, <1>3, <1>4, QuietCaller

(* LoadCredential.                                                         *)
LEMMA LoadCredentialOK == ASSUME OAuthInv, NEW c \in Callers, LoadCredential(c) PROVE OAuthInv'
<1> DEFINE new == IF credential = NoCredential THEN Idle("failed")
                  ELSE [caller[c] EXCEPT !.has = credential,
                          !.at = IF credential.fresh /\ ~caller[c].force THEN "send" ELSE "refresh"]
<1>1. caller[c] \in CallerStates /\ credential \in Credentials \cup {NoCredential}
  BY DEF OAuthInv, OAuthTypeOK
<1>2. new \in CallerStates /\ new.at \in {"failed", "send", "refresh"}
  BY <1>1, RecordsOK DEF CallerStates
<1>3. caller' = [caller EXCEPT ![c] = new]
  BY DEF LoadCredential, Ends, OAuthInv, OAuthTypeOK
<1>4. ~Refreshes(c) /\ invalidated' \in BOOLEAN /\ UNCHANGED <<credential, refreshMu, flowVars, tokenVars, deleted>>
  BY DEF LoadCredential, Refreshes, OAuthInv, OAuthTypeOK
<1> HIDE DEF new
<1> QED BY <1>2, <1>3, <1>4, QuietCaller

(* SendRequest.                                                            *)
LEMMA SendRequestOK == ASSUME OAuthInv, NEW c \in Callers, SendRequest(c) PROVE OAuthInv'
<1>1. PICK new \in CallerStates : caller' = [caller EXCEPT ![c] = new] /\ new.at \notin {"asked", "answered"}
  <2>1. [Idle("start") EXCEPT !.tries = 1] \in CallerStates /\ [Idle("start") EXCEPT !.tries = 1].at = "start"
    BY DEF Idle, CallerStates
  <2> QED BY <2>1, RecordsOK DEF SendRequest, Ends
<1>2. ~Refreshes(c) /\ invalidated' \in BOOLEAN /\ UNCHANGED <<credential, refreshMu, flowVars, tokenVars, deleted>>
  BY DEF SendRequest, Refreshes, OAuthInv, OAuthTypeOK
<1> QED BY <1>1, <1>2, QuietCaller

-----------------------------------------------------------------------------
(* The lock is free, so nobody refreshes, and the token of the file is one *)
(* the server takes, or lost.                                              *)
LEMMA RefreshCredentialOK == ASSUME OAuthInv, NEW c \in Callers, RefreshCredential(c) PROVE OAuthInv'
<1>0. /\ caller[c] \in CallerStates /\ credential \in Credentials \cup {NoCredential}
      /\ caller \in [Callers -> CallerStates] /\ refreshMu = {} /\ caller[c].at = "refresh"
      /\ invalidated' \in BOOLEAN /\ UNCHANGED <<credential, flowVars, tokenVars, deleted>>
  BY DEF OAuthInv, OAuthTypeOK, RefreshCredential
<1>1. CASE refreshMu' = refreshMu
  <2>1. PICK new \in CallerStates : caller' = [caller EXCEPT ![c] = new] /\ new.at \in {"send", "failed"}
    <3>1. CASE caller' = [caller EXCEPT ![c].has = credential, ![c].at = "send"] /\ credential # NoCredential
      <4>1. [caller[c] EXCEPT !.has = credential, !.at = "send"] \in CallerStates
        BY <1>0 DEF CallerStates
      <4>2. [caller[c] EXCEPT !.has = credential, !.at = "send"].at = "send"
        BY <1>0 DEF CallerStates
      <4>3. caller' = [caller EXCEPT ![c] = [caller[c] EXCEPT !.has = credential, !.at = "send"]]
        BY <1>0, <3>1
      <4> QED BY <4>1, <4>2, <4>3
    <3>2. CASE Ends(c, "failed")
      BY <3>2, RecordsOK DEF Ends
    <3> QED BY <1>0, <1>1, <3>1, <3>2 DEF RefreshCredential, Refreshing
  <2> QED BY <1>0, <1>1, <2>1, QuietCaller DEF Refreshes
<1>2. CASE refreshMu' # refreshMu
  <2> DEFINE new == [caller[c] EXCEPT !.has = credential, !.at = "asked"]
  <2>1. /\ credential # NoCredential /\ credential.refresh # 0 /\ refreshMu' = {c}
        /\ caller' = [caller EXCEPT ![c].has = credential, ![c].at = "asked"]
    BY <1>2 DEF RefreshCredential, Refreshing
  <2>2. caller' = [caller EXCEPT ![c] = new]
    BY <1>0, <2>1
  <2>3. new \in CallerStates /\ new.at = "asked" /\ new.has = credential
    BY <1>0 DEF CallerStates
  <2> HIDE DEF new
  <2>4. /\ caller' \in [Callers -> CallerStates] /\ caller'[c] = new
        /\ \A d \in Callers : d # c => caller'[d] = caller[d]
    BY <2>2, <2>3, OneCaller DEF OAuthInv
  <2>5. OAuthTypeOK' /\ FlowInv'
    BY <1>0, <2>1, <2>4 DEF OAuthInv, OAuthTypeOK, FlowInv, flowVars, tokenVars
  <2>6. \A d \in Callers : ~Refreshes(d)
    BY <1>0 DEF OAuthInv, RefreshInv
  <2>7. credential.refresh \in honoured \cup lost
    BY <2>1, <2>6 DEF OAuthInv, RefreshInv, Refreshes
  <2>8. RefreshInv'
    BY <1>0, <2>1, <2>3, <2>4, <2>6, <2>7 DEF RefreshInv, Refreshes, tokenVars
  <2> QED BY <2>5, <2>8 DEF OAuthInv
<1> QED BY <1>1, <1>2

(* The holder of the lock is the only one whose token is taken.            *)
LEMMA ExchangeOK == ASSUME OAuthInv, NEW c \in Callers, Exchange(c) PROVE OAuthInv'
<1> DEFINE r == caller[c].has.refresh
<1>0. /\ caller[c] \in CallerStates /\ caller \in [Callers -> CallerStates] /\ issued \in Nat
      /\ caller[c].at = "asked" /\ issued' = issued + 1
      /\ UNCHANGED <<credential, refreshMu, invalidated, flowVars, refused, lost, deleted>>
  BY DEF OAuthInv, OAuthTypeOK, Exchange
<1>1. c \in refreshMu /\ caller[c].has \in Credentials /\ r \in Nat /\ r \in honoured
  BY <1>0 DEF OAuthInv, RefreshInv, Refreshes, Credentials, Exchange
<1>2. \A d \in Callers : Refreshes(d) => d = c
  BY <1>1 DEF OAuthInv, RefreshInv
<1>3. PICK rotate \in BOOLEAN :
        /\ honoured' = IF rotate THEN (honoured \ {r}) \cup {issued'} ELSE honoured
        /\ caller' = [caller EXCEPT ![c].at = "answered",
                        ![c].next = Credential(issued', IF rotate THEN issued' ELSE r)]
  BY DEF Exchange
<1> DEFINE next == Credential(issued', IF rotate THEN issued' ELSE r)
           new == [caller[c] EXCEPT !.at = "answered", !.next = next]
<1>4. next \in Credentials /\ next.refresh = IF rotate THEN issued' ELSE r
  BY SMT, <1>0, <1>1, RecordsOK
<1>5. next.refresh \in honoured'
  BY <1>1, <1>3, <1>4
<1>6. caller' = [caller EXCEPT ![c] = new]
  BY <1>0, <1>3
<1> HIDE DEF next
<1>7. new \in CallerStates /\ new.at = "answered" /\ new.next = next /\ new.has = caller[c].has
  BY <1>0, <1>4 DEF CallerStates
<1> HIDE DEF new
<1>8. /\ caller' \in [Callers -> CallerStates] /\ caller'[c] = new
      /\ \A d \in Callers : d # c => caller'[d] = caller[d]
  BY <1>6, <1>7, OneCaller DEF OAuthInv
<1>9. OAuthTypeOK' /\ FlowInv'
  BY SMT, <1>0, <1>8 DEF OAuthInv, OAuthTypeOK, FlowInv, flowVars
<1>10. credential # NoCredential =>
         credential.refresh \in {0} \cup honoured' \cup lost \/ new.has.refresh = credential.refresh
  <2>1. credential # NoCredential => credential.refresh \in {0} \cup honoured \cup lost
    BY <1>0, <1>2 DEF OAuthInv, RefreshInv, Refreshes
  <2> QED BY <1>3, <1>7, <2>1
<1>11. RefreshInv'
  <2>1. (\A d \in Callers : Refreshes(d) <=> d \in refreshMu)'
    BY <1>0, <1>1, <1>7, <1>8 DEF OAuthInv, RefreshInv, Refreshes
  <2>2. /\ \A d, e \in refreshMu' : d = e
        /\ credential' = NoCredential => refreshMu' \subseteq deleted'
    BY <1>0 DEF OAuthInv, RefreshInv
  <2>3. \A d \in refreshMu' : caller'[d].has \in Credentials
    BY <1>0, <1>1, <1>7, <1>8, <2>2
  <2>4. \A d \in Callers : caller'[d].at # "asked"
    BY <1>2, <1>7, <1>8 DEF Refreshes
  <2>5. \A d \in Callers : caller'[d].at = "answered" =>
          caller'[d].next \in Credentials /\ caller'[d].next.refresh \in honoured'
    BY <1>2, <1>4, <1>5, <1>7, <1>8 DEF Refreshes
  <2> QED BY <1>0, <1>7, <1>8, <1>10, <2>1, <2>2, <2>3, <2>4, <2>5 DEF RefreshInv
<1> QED BY <1>9, <1>11 DEF OAuthInv

(* The holder of the lock gives it back; nobody refreshes then.            *)
LEMMA Release ==
  ASSUME OAuthInv, NEW c \in Callers, Refreshes(c), NEW new \in CallerStates,
         caller' = [caller EXCEPT ![c] = new], new.at \notin {"asked", "answered"}, refreshMu' = {},
         UNCHANGED <<invalidated, flowVars, issued, deleted>>,
         credential' \in Credentials \cup {NoCredential},
         credential' # NoCredential => credential'.refresh \in {0} \cup honoured' \cup lost'
  PROVE  OAuthInv'
<1>1. /\ caller' \in [Callers -> CallerStates] /\ caller'[c] = new
      /\ \A d \in Callers : d # c => caller'[d] = caller[d]
  BY OneCaller DEF OAuthInv
<1>2. OAuthTypeOK' /\ FlowInv'
  BY <1>1 DEF OAuthInv, OAuthTypeOK, FlowInv, flowVars
<1>3. \A d \in Callers : Refreshes(d) => d = c
  BY DEF OAuthInv, RefreshInv
<1>4. \A d \in Callers : caller'[d].at \notin {"asked", "answered"}
  BY <1>1, <1>3 DEF Refreshes
<1>5. RefreshInv'
  BY <1>4 DEF RefreshInv, Refreshes
<1> QED BY <1>2, <1>5 DEF OAuthInv

(* What is in the file while c refreshes.                                  *)
LEMMA FileWhileRefreshing ==
  ASSUME OAuthInv, NEW c \in Callers, Refreshes(c), credential # NoCredential
  PROVE  \/ credential.refresh \in {0} \cup honoured \cup lost
         \/ caller[c].at = "answered" /\ caller[c].has.refresh = credential.refresh
<1>1. \A d \in Callers : Refreshes(d) => d = c
  BY DEF OAuthInv, RefreshInv
<1> QED BY <1>1 DEF OAuthInv, RefreshInv, Refreshes

(* A refresh that fails loses no token that stays in the file.             *)
LEMMA RefreshFailsOK == ASSUME OAuthInv, NEW c \in Callers, RefreshFails(c) \/ SaveFails(c) PROVE OAuthInv'
<1>1. /\ Refreshes(c) /\ refreshMu' = {} /\ caller' = [caller EXCEPT ![c] = Idle("failed")]
      /\ UNCHANGED <<credential, invalidated, flowVars, issued, deleted>>
  BY DEF RefreshFails, SaveFails, Refreshes, Ends
<1>2. credential' # NoCredential => credential'.refresh \in {0} \cup honoured' \cup lost'
  <2>1. CASE RefreshFails(c)
    <3>1. honoured \cup lost \subseteq honoured' \cup lost' /\ caller[c].at = "asked"
      BY <2>1 DEF RefreshFails
    <3> QED BY <1>1, <3>1, FileWhileRefreshing
  <2>2. CASE SaveFails(c)
    <3>1. honoured' = honoured /\ lost' = lost \cup {caller[c].has.refresh}
      BY <2>2 DEF SaveFails
    <3> QED BY <1>1, <3>1, FileWhileRefreshing
  <2> QED BY <2>1, <2>2
<1>3. credential' \in Credentials \cup {NoCredential}
  BY <1>1 DEF OAuthInv, OAuthTypeOK
<1> QED BY <1>1, <1>2, <1>3, RecordsOK, Release

(* A refresh that succeeds puts a token in the file that the server takes. *)
LEMMA SaveRefreshedOK == ASSUME OAuthInv, NEW c \in Callers, SaveRefreshed(c) PROVE OAuthInv'
<1> DEFINE new == [caller[c] EXCEPT !.has = caller[c].next, !.next = NoCredential, !.at = "send"]
<1>1. /\ caller[c] \in CallerStates /\ caller \in [Callers -> CallerStates]
      /\ caller[c].next \in Credentials /\ caller[c].next.refresh \in honoured
  BY DEF OAuthInv, OAuthTypeOK, RefreshInv, SaveRefreshed
<1>2. new \in CallerStates /\ new.at = "send"
  BY <1>1 DEF CallerStates
<1>3. caller' = [caller EXCEPT ![c] = new]
  BY <1>1 DEF SaveRefreshed
<1>4. /\ Refreshes(c) /\ refreshMu' = {} /\ credential' = caller[c].next /\ honoured' = honoured
      /\ UNCHANGED <<invalidated, flowVars, issued, deleted>>
  BY DEF SaveRefreshed, Refreshes, tokenVars
<1> HIDE DEF new
<1> QED BY <1>1, <1>2, <1>3, <1>4, Release

-----------------------------------------------------------------------------
(* Expiry, revocation and deletion touch no request.                       *)
LEMMA OutsideOK == ASSUME OAuthInv, Expire \/ Revoke \/ DeleteCredential PROVE OAuthInv'
<1>1. /\ UNCHANGED <<refreshMu, invalidated, caller, flowVars, issued, honoured, lost>>
      /\ FlowInv'
  BY DEF Expire, Revoke, DeleteCredential, tokenVars, OAuthInv, FlowInv, flowVars
<1>2. CASE Expire
  <2>1. credential \in Credentials /\ credential' = [credential EXCEPT !.fresh = FALSE]
    BY <1>2 DEF Expire, OAuthInv, OAuthTypeOK
  <2>2. credential' \in Credentials /\ credential'.refresh = credential.refresh
    BY <2>1 DEF Credentials
  <2>3. credential # NoCredential /\ credential' # NoCredential
    BY <1>2, <2>2, OAuthAssumption DEF Expire, Credentials
  <2>4. OAuthTypeOK'
    BY <1>1, <2>2 DEF OAuthInv, OAuthTypeOK, flowVars
  <2>5. RefreshInv'
    BY <1>1, <2>2, <2>3 DEF OAuthInv, RefreshInv, Refreshes
  <2> QED BY <1>1, <2>4, <2>5 DEF OAuthInv
<1>3. CASE Revoke
  <2>1. UNCHANGED <<credential, deleted>>
    BY <1>3 DEF Revoke
  <2> QED BY <1>1, <2>1 DEF OAuthInv, OAuthTypeOK, RefreshInv, Refreshes, flowVars
<1>4. CASE DeleteCredential
  <2>1. credential' = NoCredential /\ deleted' = refreshMu
    BY <1>4 DEF DeleteCredential
  <2> QED BY <1>1, <2>1 DEF OAuthInv, OAuthTypeOK, RefreshInv, Refreshes, flowVars
<1> QED BY <1>2, <1>3, <1>4

(* Steps of flows before the exchange leave the credential alone.          *)
LEMMA FlowStep ==
  ASSUME OAuthInv, FlowInv', flows' \in [Flows -> {"new", "claude", "codex", "gone"}],
         poller' \in [Pollers -> PollerStates],
         UNCHANGED <<credential, refreshMu, invalidated, caller, saves, tokenVars, deleted>>
  PROVE  OAuthInv'
  BY DEF OAuthInv, OAuthTypeOK, RefreshInv, Refreshes, tokenVars

(* A flow starts once and expires.                                         *)
LEMMA FlowsOK ==
  ASSUME OAuthInv, NEW f \in Flows, FlowExpires(f) \/ \E kind \in {"claude", "codex"} : StartFlow(f, kind)
  PROVE  OAuthInv'
<1>1. PICK kind \in {"claude", "codex", "gone"} : flows' = [flows EXCEPT ![f] = kind]
  BY DEF FlowExpires, StartFlow, Without
<1>2. /\ flows[f] # "gone"
      /\ UNCHANGED <<credential, refreshMu, invalidated, caller, poller, saves, tokenVars, deleted>>
  BY DEF FlowExpires, StartFlow, Open
<1>3. flows' \in [Flows -> {"new", "claude", "codex", "gone"}] /\ poller' \in [Pollers -> PollerStates]
  BY <1>1, <1>2 DEF OAuthInv, OAuthTypeOK
<1>4. FlowInv'
  BY <1>1, <1>2 DEF OAuthInv, OAuthTypeOK, FlowInv
<1> QED BY <1>2, <1>3, <1>4, FlowStep

(* A request that asks, or gives up a flow, exchanges nothing.             *)
LEMMA PollerQuiet ==
  ASSUME OAuthInv, NEW p \in Pollers, NEW at \in {"idle", "asking"}, NEW f \in Flows \cup {0},
         at = "asking" => f \in Flows, PollerAt(p, at, f),
         UNCHANGED <<credential, refreshMu, invalidated, caller, flows, saves, tokenVars, deleted>>
  PROVE  OAuthInv'
<1>1. poller \in [Pollers -> PollerStates] /\ [at |-> at, flow |-> f] \in PollerStates
  BY DEF OAuthInv, OAuthTypeOK, PollerStates
<1>2. /\ poller' \in [Pollers -> PollerStates] /\ poller'[p].at = at /\ poller'[p].flow = f
      /\ \A q \in Pollers : q # p => poller'[q] = poller[q]
  BY <1>1 DEF PollerAt
<1>3. FlowInv'
  BY SMT, <1>2 DEF OAuthInv, FlowInv
<1> QED BY <1>2, <1>3, FlowStep DEF OAuthInv, OAuthTypeOK

(* A request takes an open flow out of the table, to exchange its code.    *)
LEMMA TakeFlow ==
  ASSUME OAuthInv, NEW p \in Pollers, NEW f \in Flows, Open(f), flows' = Without(f),
         PollerAt(p, "exchange", f),
         UNCHANGED <<credential, refreshMu, invalidated, caller, saves, tokenVars, deleted>>
  PROVE  OAuthInv'
<1>1. /\ poller \in [Pollers -> PollerStates] /\ [at |-> "exchange", flow |-> f] \in PollerStates
      /\ flows \in [Flows -> {"new", "claude", "codex", "gone"}]
  BY DEF OAuthInv, OAuthTypeOK, PollerStates
<1>2. /\ poller' \in [Pollers -> PollerStates] /\ poller'[p].at = "exchange" /\ poller'[p].flow = f
      /\ \A q \in Pollers : q # p => poller'[q] = poller[q]
  BY <1>1 DEF PollerAt
<1>3. /\ flows' \in [Flows -> {"new", "claude", "codex", "gone"}] /\ flows'[f] = "gone"
      /\ \A g \in Flows : g # f => flows'[g] = flows[g]
  BY <1>1 DEF Without
<1>4. saves[f] = 0 /\ \A q \in Pollers : poller[q].at = "exchange" => poller[q].flow # f
  BY DEF OAuthInv, FlowInv, Open
<1>5. FlowInv'
  BY SMT, <1>2, <1>3, <1>4 DEF OAuthInv, FlowInv
<1> QED BY <1>2, <1>3, <1>5, FlowStep

(* The steps of a request that completes a flow, up to the exchange.       *)
LEMMA PollerOK ==
  ASSUME OAuthInv, NEW p \in Pollers,
         PollAnswered(p) \/ \E f \in Flows : PollCodexDeviceFlow(p, f) \/ CompleteClaudeFlow(p, f)
  PROVE  OAuthInv'
<1>1. ASSUME NEW f \in Flows, PollCodexDeviceFlow(p, f) PROVE OAuthInv'
  BY <1>1, PollerQuiet DEF PollCodexDeviceFlow
<1>2. CASE PollAnswered(p)
  <2>1. poller[p].flow \in Flows
    BY <1>2 DEF PollAnswered, OAuthInv, FlowInv
  <2>2. CASE PollerAt(p, "idle", 0) /\ UNCHANGED flows
    BY <1>2, <2>2, PollerQuiet DEF PollAnswered
  <2>3. CASE StillOpen(poller[p].flow) /\ flows' = Without(poller[p].flow) /\ PollerAt(p, "exchange", poller[p].flow)
    BY <1>2, <2>1, <2>3, TakeFlow DEF PollAnswered, StillOpen
  <2> QED BY <1>2, <2>2, <2>3 DEF PollAnswered
<1>3. ASSUME NEW f \in Flows, CompleteClaudeFlow(p, f) PROVE OAuthInv'
  <2>1. CASE flows[f] = "claude"
    BY <1>3, <2>1, TakeFlow DEF CompleteClaudeFlow
  <2>2. CASE flows[f] # "claude"
    <3>1. /\ Open(f) /\ flows' = Without(f)
          /\ UNCHANGED <<credential, refreshMu, invalidated, caller, poller, saves, tokenVars, deleted>>
      BY <1>3, <2>2 DEF CompleteClaudeFlow
    <3> QED BY <3>1, FlowsOK DEF FlowExpires
  <2> QED BY <2>1, <2>2
<1> QED BY <1>1, <1>2, <1>3

(* The exchange: the flow's only credential, with a token of its own.      *)
LEMMA SaveGrantedOK == ASSUME OAuthInv, NEW p \in Pollers, SaveGranted(p) PROVE OAuthInv'
<1> DEFINE f == poller[p].flow
<1>0. /\ f \in Flows /\ saves[f] = 0 /\ flows[f] = "gone" /\ poller[p].at = "exchange"
      /\ poller \in [Pollers -> PollerStates] /\ saves \in [Flows -> Nat] /\ issued \in Nat
      /\ PollerAt(p, "idle", 0)
      /\ UNCHANGED <<refreshMu, invalidated, caller, flows, refused, lost, deleted>>
  BY DEF OAuthInv, OAuthTypeOK, FlowInv, SaveGranted
<1>1. CASE UNCHANGED <<credential, issued, honoured, saves>>
  BY <1>0, <1>1, PollerQuiet DEF tokenVars
<1>2. CASE /\ issued' = issued + 1 /\ honoured' = honoured \cup {issued'}
           /\ \E r \in {issued', 0} : credential' = Credential(issued', r)
           /\ saves' = [saves EXCEPT ![f] = @ + 1]
  <2>1. /\ poller' \in [Pollers -> PollerStates] /\ poller'[p].at = "idle"
        /\ \A q \in Pollers : q # p => poller'[q] = poller[q]
    <3>1. [at |-> "idle", flow |-> 0] \in PollerStates
      BY DEF PollerStates
    <3> QED BY <1>0, <3>1 DEF PollerAt
  <2>2. saves' \in [Flows -> Nat] /\ saves'[f] = 1 /\ \A g \in Flows : g # f => saves'[g] = saves[g]
    BY SMT, <1>0, <1>2
  <2>3. /\ credential' \in Credentials /\ credential' # NoCredential
        /\ credential'.refresh \in {0} \cup honoured'
    <3>1. PICK r \in {issued', 0} : credential' = Credential(issued', r)
      BY <1>2
    <3>2. issued' \in Nat /\ r \in Nat /\ r \in {0} \cup honoured'
      BY SMT, <1>0, <1>2
    <3> QED BY <3>1, <3>2, RecordsOK
  <2>4. OAuthTypeOK'
    BY SMT, <1>0, <1>2, <2>1, <2>2, <2>3 DEF OAuthInv, OAuthTypeOK
  <2>5. FlowInv'
    BY SMT, <1>0, <2>1, <2>2 DEF OAuthInv, FlowInv
  <2>6. RefreshInv'
    BY <1>0, <1>2, <2>3 DEF OAuthInv, RefreshInv, Refreshes
  <2> QED BY <2>4, <2>5, <2>6 DEF OAuthInv
<1> QED BY <1>1, <1>2 DEF SaveGranted

(* Every step preserves the invariant.                                     *)
LEMMA OAuthStepOK == OAuthInv /\ [OAuthNext]_oauthVars => OAuthInv'
<1> SUFFICES ASSUME OAuthInv, [OAuthNext]_oauthVars PROVE OAuthInv'
  OBVIOUS
<1>1. ASSUME NEW c \in Callers, CallerStep(c) PROVE OAuthInv'
  BY <1>1, AskSourceOK, LoadCredentialOK, RefreshCredentialOK, ExchangeOK, RefreshFailsOK,
     SaveRefreshedOK, SendRequestOK DEF CallerStep, CredentialStep
<1>2. CASE OAuthNext
  BY <1>1, <1>2, OutsideOK, FlowsOK, PollerOK, SaveGrantedOK DEF OAuthNext
<1>3. CASE UNCHANGED oauthVars
  BY <1>3 DEF oauthVars, OAuthInv, OAuthTypeOK, RefreshInv, Refreshes, FlowInv
<1> QED BY <1>2, <1>3

(* The invariant holds in every reachable state.                           *)
LEMMA OAuthInvariant == OAuthSpec => []OAuthInv
<1>1. (\E parties \in SUBSET (Callers \cup Pollers) : OAuthInit(parties)) => OAuthInv
  BY OAuthInitOK
<1> QED BY <1>1, OAuthStepOK, PTL DEF OAuthSpec

-----------------------------------------------------------------------------
(***************************************************************************)
(* However many requests find the credential expired, and however many     *)
(* poll or complete a flow, a refresh token is presented again only when   *)
(* the answer to its use was lost, and a flow gives one credential         *)
(* (manager.go refreshCredential, PollCodexDeviceFlow, CompleteClaudeFlow).*)
(***************************************************************************)
THEOREM UsedOnceCorrect == OAuthSpec => []UsedOnce
<1>1. OAuthInv => UsedOnce
  BY DEF OAuthInv, RefreshInv, FlowInv, UsedOnce, SpentOnlyIfLost, FlowGivesOne
<1> QED BY <1>1, OAuthInvariant, PTL

(* Who brings a deleted credential back.                                   *)
LEMMA DeletedStep ==
  ASSUME OAuthInv, OAuthNext, credential = NoCredential, credential' # NoCredential
  PROVE  \/ \E p \in Pollers : poller[p].at = "exchange" /\ poller'[p].at = "idle"
         \/ \E c \in deleted : caller[c].at = "answered" /\ caller'[c].at = "send"
<1>1. ASSUME NEW c \in Callers, SaveRefreshed(c)
      PROVE  c \in deleted /\ caller[c].at = "answered" /\ caller'[c].at = "send"
  <2>1. c \in deleted /\ caller[c].at = "answered"
    BY <1>1 DEF SaveRefreshed, OAuthInv, RefreshInv, Refreshes
  <2>2. caller'[c].at = "send"
    BY <1>1 DEF SaveRefreshed, OAuthInv, OAuthTypeOK, CallerStates
  <2> QED BY <2>1, <2>2
<1>2. ASSUME NEW p \in Pollers, SaveGranted(p)
      PROVE  poller[p].at = "exchange" /\ poller'[p].at = "idle"
  BY <1>2 DEF SaveGranted, PollerAt, OAuthInv, OAuthTypeOK
<1>3. \A c \in Callers : CallerStep(c) => SaveRefreshed(c) \/ UNCHANGED credential
  BY DEF CallerStep, CredentialStep, AskSource, LoadCredential, RefreshCredential, Exchange, RefreshFails, SaveFails,
         SendRequest
<1>4. ~Expire /\ ~Revoke /\ ~DeleteCredential
  BY DEF Expire, Revoke, DeleteCredential
<1>5. /\ \A f \in Flows : ~FlowExpires(f) /\ \A kind \in {"claude", "codex"} : ~StartFlow(f, kind)
      /\ \A p \in Pollers : /\ ~PollAnswered(p)
                            /\ \A f \in Flows : ~PollCodexDeviceFlow(p, f) /\ ~CompleteClaudeFlow(p, f)
  BY DEF FlowExpires, StartFlow, PollAnswered, PollCodexDeviceFlow, CompleteClaudeFlow
<1> QED BY <1>1, <1>2, <1>3, <1>4, <1>5 DEF OAuthNext

(***************************************************************************)
(* A deleted credential comes back only with a new connection, or with a   *)
(* refresh that was under way when it was deleted (manager.go              *)
(* refreshCredential, store.go).                                           *)
(***************************************************************************)
THEOREM DeletedCorrect == OAuthSpec => DeletedStaysDeleted
<1>1. OAuthInv /\ [OAuthNext]_oauthVars =>
        [credential = NoCredential /\ credential' # NoCredential
           => \/ \E p \in Pollers : poller[p].at = "exchange" /\ poller'[p].at = "idle"
              \/ \E c \in deleted : caller[c].at = "answered" /\ caller'[c].at = "send"]_oauthVars
  BY DeletedStep
<1> QED BY <1>1, OAuthInvariant, PTL DEF OAuthSpec, DeletedStaysDeleted

-----------------------------------------------------------------------------
(* The rotation of API keys.  A round tries the keys from where it         *)
(* started, in order and around the end: the keys tried are the first      *)
(* Len(tried) of that order, all different, and a whole round is all the   *)
(* keys.                                                                   *)

KeysSpec == KeysInit /\ [][KeysNext]_keyVars

Kinds == {"retryable", "timeout", "quota_exceeded", "upstream_server_error", "auth_failed", "fatal"}
Calls == [at : {"new", "try", "mark", "advance", "again", "done"}, streaming : BOOLEAN, round : {1, 2},
          start : Keys, offset : Keys, tried : Seq(Keys), refused : SUBSET Keys, result : Kinds \cup {"", "ok"}]

(* What is known of one call, whatever the others do to the index.         *)
InOrder(call) ==
  /\ Len(call.tried) <= KeyCount
  /\ \A i \in 1 .. Len(call.tried) : call.tried[i] = (call.start + (i - 1)) % KeyCount
AsFar(call) ==
  /\ call.at = "new" => call.round = 1 /\ call.offset = 0 /\ call.tried = << >>
  /\ call.at = "try" => Len(call.tried) = call.offset
  /\ call.at \in {"mark", "advance"} => Len(call.tried) = call.offset + 1
  /\ call.at = "advance" => call.offset < KeyCount - 1
  /\ call.at = "again" \/ call.round = 2 => call.streaming
Refused(call) ==
  call.round = 1 /\ call.at \in {"try", "advance"} => \A i \in 1 .. Len(call.tried) : call.tried[i] \in call.refused
Told(call) ==
  call.at \in {"again", "done"} \/ call.round = 2 =>
    /\ call.result \in Kinds \cup {"ok"}
    /\ call.result = "quota_exceeded" => call.refused = Keys
CallOK(call) == InOrder(call) /\ AsFar(call) /\ Refused(call) /\ Told(call)

KeysInv ==
  /\ nextAPIKeyIx \in Keys
  /\ keyCall \in [KeyCalls -> Calls]
  /\ \A c \in KeyCalls : CallOK(keyCall[c])

(* The remainder of a number below twice the divisor.                      *)
LEMMA Around ==
  ASSUME NEW x \in 0 .. 2 * KeyCount - 1
  PROVE  /\ x < KeyCount => x % KeyCount = x
         /\ x >= KeyCount => x % KeyCount = x - KeyCount
         /\ x % KeyCount \in Keys
  BY KeyCountAssumption, SMTT(30) DEF Keys

(* A call's fields, and the shape of the list of keys tried.               *)
LEMMA Fields ==
  ASSUME NEW call \in Calls
  PROVE  /\ call.at \in {"new", "try", "mark", "advance", "again", "done"}
         /\ call.streaming \in BOOLEAN /\ call.round \in {1, 2}
         /\ call.start \in Keys /\ call.offset \in Keys
         /\ call.tried \in Seq(Keys) /\ Len(call.tried) \in Nat /\ DOMAIN call.tried = 1 .. Len(call.tried)
         /\ call.refused \in SUBSET Keys /\ call.result \in Kinds \cup {"", "ok"}
  <1>1. /\ call.at \in {"new", "try", "mark", "advance", "again", "done"}
        /\ call.streaming \in BOOLEAN /\ call.round \in {1, 2}
        /\ call.start \in Keys /\ call.offset \in Keys /\ call.tried \in Seq(Keys)
        /\ call.refused \in SUBSET Keys /\ call.result \in Kinds \cup {"", "ok"}
    BY DEF Calls
  <1>2. ASSUME NEW q \in Seq(Keys) PROVE Len(q) \in Nat /\ DOMAIN q = 1 .. Len(q)
    BY SMT
  <1> QED BY <1>1, <1>2

(* The key tried in i-th place, counted around the end.                    *)
LEMMA Place ==
  ASSUME NEW start \in Keys, NEW n \in Keys
  PROVE  /\ start + n < KeyCount => (start + n) % KeyCount = start + n
         /\ start + n >= KeyCount => (start + n) % KeyCount = start + n - KeyCount
         /\ (start + n) % KeyCount \in Keys
  <1> DEFINE x == start + n
  <1>1. x \in 0 .. 2 * KeyCount - 1
    BY SMT, KeyCountAssumption DEF Keys
  <1> HIDE DEF x
  <1>2. /\ x < KeyCount => x % KeyCount = x
        /\ x >= KeyCount => x % KeyCount = x - KeyCount
        /\ x % KeyCount \in Keys
    BY <1>1, Around
  <1> QED BY SMT, <1>1, <1>2, KeyCountAssumption DEF x, Keys

(* The keys of a round are all different, and a whole round is every key.  *)
LEMMA RoundDistinct ==
  ASSUME NEW call \in Calls, InOrder(call),
         NEW i \in DOMAIN call.tried, NEW j \in DOMAIN call.tried, i # j
  PROVE  call.tried[i] # call.tried[j]
  <1>1. i \in 1 .. Len(call.tried) /\ j \in 1 .. Len(call.tried) /\ Len(call.tried) \in Nat /\ call.start \in Keys
    BY Fields
  <1>2. \A n \in 1 .. Len(call.tried) : n - 1 \in Keys
    <2>1. Len(call.tried) \in Nat /\ Len(call.tried) <= KeyCount
      BY <1>1 DEF InOrder
    <2> QED BY SMT, <2>1, KeyCountAssumption DEF Keys
  <1>3. call.tried[i] = (call.start + (i - 1)) % KeyCount /\ call.tried[j] = (call.start + (j - 1)) % KeyCount
    BY <1>1 DEF InOrder
  <1> DEFINE a == i - 1
             b == j - 1
             s == call.start
  <1>4. a \in Keys /\ b \in Keys /\ a # b /\ s \in Keys
    BY SMT, <1>1, <1>2
  <1>5. call.tried[i] = (s + a) % KeyCount /\ call.tried[j] = (s + b) % KeyCount
    BY <1>3
  <1> HIDE DEF a, b, s
  <1>6. /\ s + a < KeyCount => (s + a) % KeyCount = s + a
        /\ s + a >= KeyCount => (s + a) % KeyCount = s + a - KeyCount
    BY <1>4, Place
  <1>7. /\ s + b < KeyCount => (s + b) % KeyCount = s + b
        /\ s + b >= KeyCount => (s + b) % KeyCount = s + b - KeyCount
    BY <1>4, Place
  <1>8. (s + a) % KeyCount # (s + b) % KeyCount
    BY SMT, <1>4, <1>6, <1>7, KeyCountAssumption DEF Keys
  <1> QED BY <1>5, <1>8

(* A list of KeyCount different keys in order holds every key.             *)
LEMMA RoundComplete ==
  ASSUME NEW call \in Calls, InOrder(call), Len(call.tried) = KeyCount,
         \A i \in 1 .. Len(call.tried) : call.tried[i] \in call.refused
  PROVE  call.refused = Keys
  <1>1. call.refused \in SUBSET Keys /\ call.start \in Keys
    BY Fields
  <1>2. SUFFICES ASSUME NEW k \in Keys PROVE k \in call.refused
    BY <1>1
  <1> DEFINE s == call.start
             n == IF k >= s THEN k - s ELSE k - s + KeyCount
  <1>3. s \in Keys
    BY <1>1
  <1> HIDE DEF s
  <1>4. n \in Keys /\ n + 1 \in 1 .. Len(call.tried) /\ (n + 1) - 1 = n
    BY SMT, <1>3, KeyCountAssumption DEF Keys
  <1>5. (s + n < KeyCount /\ s + n = k) \/ (s + n >= KeyCount /\ s + n - KeyCount = k)
    BY SMT, <1>3, KeyCountAssumption DEF Keys
  <1> HIDE DEF n
  <1>6. (s + n) % KeyCount = k
    BY <1>3, <1>4, <1>5, Place
  <1>7. call.tried[n + 1] = (s + ((n + 1) - 1)) % KeyCount
    BY <1>4 DEF InOrder, s
  <1> QED BY <1>4, <1>6, <1>7

-----------------------------------------------------------------------------
(* A step changes one call, and the others are as they were.               *)
LEMMA OneCall ==
  ASSUME KeysInv, NEW c \in KeyCalls, NEW call \in Calls, CallOK(call),
         keyCall' = [keyCall EXCEPT ![c] = call], nextAPIKeyIx' \in Keys
  PROVE  KeysInv'
  <1>1. keyCall' \in [KeyCalls -> Calls]
    BY DEF KeysInv
  <1>2. \A d \in KeyCalls : keyCall'[d] = IF d = c THEN call ELSE keyCall[d]
    BY DEF KeysInv
  <1>3. \A d \in KeyCalls : CallOK(keyCall'[d])
    BY <1>2 DEF KeysInv
  <1> QED BY <1>1, <1>3 DEF KeysInv

(* Every key the index is set to is a key.                                 *)
LEMMA NextIsKey ==
  ASSUME NEW c \in KeyCalls, keyCall[c] \in Calls
  PROVE  keyIx(c) \in Keys /\ (keyIx(c) + 1) % KeyCount \in Keys
  <1>1. keyIx(c) \in Keys
    BY Fields, Place DEF keyIx
  <1>2. keyIx(c) + 1 \in 0 .. 2 * KeyCount - 1
    BY SMT, <1>1, KeyCountAssumption DEF Keys
  <1> QED BY <1>1, <1>2, Around

(* The invariant holds before any call.                                    *)
LEMMA KeysInitOK == KeysInit => KeysInv
  <1> SUFFICES ASSUME KeysInit PROVE KeysInv
    OBVIOUS
  <1>1. NotCalled \in Calls
    BY SMT, KeyCountAssumption DEF NotCalled, Calls, Keys
  <1>2. CallOK(NotCalled)
    BY SMT, KeyCountAssumption DEF NotCalled, CallOK, InOrder, AsFar, Refused, Told
  <1> QED BY SMT, <1>1, <1>2, KeyCountAssumption DEF KeysInit, KeysInv, Keys

(* A call begins with an empty round at the index it reads.                *)
LEMMA BeginCallOK ==
  ASSUME KeysInv, NEW c \in KeyCalls, BeginCall(c)
  PROVE  KeysInv'
  <1> DEFINE old == keyCall[c]
  <1>1. PICK streaming \in BOOLEAN :
          keyCall' = [keyCall EXCEPT ![c] = [old EXCEPT !.at = "try", !.streaming = streaming, !.start = nextAPIKeyIx]]
    BY DEF BeginCall, KeysInv
  <1> DEFINE new == [old EXCEPT !.at = "try", !.streaming = streaming, !.start = nextAPIKeyIx]
  <1>2. old \in Calls /\ CallOK(old) /\ old.at = "new" /\ nextAPIKeyIx \in Keys /\ nextAPIKeyIx' = nextAPIKeyIx
    BY DEF BeginCall, KeysInv
  <1>3. new \in Calls
    BY <1>2 DEF Calls
  <1>4. /\ new.at = "try" /\ new.round = old.round /\ new.offset = old.offset
        /\ new.tried = old.tried
    BY <1>2 DEF Calls
  <1>5. new.round = 1 /\ new.offset = 0 /\ new.tried = << >>
    BY <1>2, <1>4 DEF CallOK, AsFar
  <1>6. keyCall' = [keyCall EXCEPT ![c] = new]
    BY <1>1
  <1> HIDE DEF new, old
  <1>7. InOrder(new) /\ AsFar(new) /\ Refused(new) /\ Told(new)
    BY SMT, <1>4, <1>5, KeyCountAssumption DEF InOrder, AsFar, Refused, Told
  <1> QED BY <1>2, <1>3, <1>6, <1>7, OneCall DEF CallOK

(* A failed stream is asked again as a completion, in a new round.         *)
LEMMA AskAgainOK ==
  ASSUME KeysInv, NEW c \in KeyCalls, AskAgain(c)
  PROVE  KeysInv'
  <1> DEFINE old == keyCall[c]
             new == [old EXCEPT !.at = "try", !.round = 2, !.start = nextAPIKeyIx, !.offset = 0, !.tried = << >>]
  <1>1. keyCall' = [keyCall EXCEPT ![c] = new] /\ nextAPIKeyIx' = nextAPIKeyIx
    BY DEF AskAgain, KeysInv
  <1>2. old \in Calls /\ CallOK(old) /\ old.at = "again" /\ nextAPIKeyIx \in Keys
    BY DEF AskAgain, KeysInv
  <1>3. 0 \in Keys /\ << >> \in Seq(Keys)
    BY SMT, KeyCountAssumption DEF Keys
  <1>4. new \in Calls
    BY <1>2, <1>3 DEF Calls
  <1>5. /\ new.at = "try" /\ new.round = 2 /\ new.offset = 0 /\ new.tried = << >>
        /\ new.streaming = old.streaming /\ new.result = old.result /\ new.refused = old.refused
    BY <1>2 DEF Calls
  <1> HIDE DEF new, old
  <1>6. old.streaming /\ old.result \in Kinds \cup {"ok"} /\ (old.result = "quota_exceeded" => old.refused = Keys)
    BY <1>2 DEF CallOK, AsFar, Told
  <1>7. InOrder(new) /\ Refused(new)
    BY SMT, <1>5, KeyCountAssumption DEF InOrder, Refused
  <1>8. AsFar(new)
    BY <1>5, <1>6 DEF AsFar
  <1>9. Told(new)
    BY <1>5, <1>6 DEF Told
  <1> QED BY <1>1, <1>2, <1>4, <1>7, <1>8, <1>9, OneCall DEF CallOK

(* Marking the key that answered leaves its call without a failure.        *)
LEMMA MarkOK ==
  ASSUME KeysInv, NEW c \in KeyCalls, markNextAPIKeyAfter(c)
  PROVE  KeysInv'
  <1> DEFINE old == keyCall[c]
             new == [old EXCEPT !.at = "done", !.result = "ok"]
  <1>1. keyCall' = [keyCall EXCEPT ![c] = new] /\ nextAPIKeyIx' = (keyIx(c) + 1) % KeyCount
    BY DEF markNextAPIKeyAfter, KeysInv
  <1>2. old \in Calls /\ CallOK(old) /\ old.at = "mark"
    BY DEF markNextAPIKeyAfter, KeysInv
  <1>3. new \in Calls
    BY <1>2 DEF Calls
  <1>4. /\ new.at = "done" /\ new.result = "ok" /\ new.round = old.round /\ new.streaming = old.streaming
        /\ new.start = old.start /\ new.tried = old.tried
    BY <1>2 DEF Calls
  <1>5. nextAPIKeyIx' \in Keys
    BY <1>1, <1>2, NextIsKey
  <1> HIDE DEF new, old
  <1>6. InOrder(new) /\ AsFar(new) /\ Refused(new) /\ Told(new)
    BY <1>2, <1>4 DEF CallOK, InOrder, AsFar, Refused, Told
  <1> QED BY <1>1, <1>3, <1>5, <1>6, OneCall DEF CallOK

(* The index is set past a key that failed, and the next is tried.         *)
LEMMA AdvanceOK ==
  ASSUME KeysInv, NEW c \in KeyCalls, setNextAPIKey(c)
  PROVE  KeysInv'
  <1> DEFINE old == keyCall[c]
             new == [old EXCEPT !.at = "try", !.offset = old.offset + 1]
  <1>1. keyCall' = [keyCall EXCEPT ![c] = new] /\ nextAPIKeyIx' = (keyIx(c) + 1) % KeyCount
    BY DEF setNextAPIKey, KeysInv
  <1>2. old \in Calls /\ CallOK(old) /\ old.at = "advance"
    BY DEF setNextAPIKey, KeysInv
  <1>3. old.offset + 1 \in Keys
    <2>1. old.offset \in Keys /\ old.offset < KeyCount - 1
      BY <1>2, Fields DEF CallOK, AsFar
    <2> QED BY SMT, <2>1, KeyCountAssumption DEF Keys
  <1>4. new \in Calls
    BY <1>2, <1>3 DEF Calls
  <1>5. /\ new.at = "try" /\ new.offset = old.offset + 1 /\ new.round = old.round /\ new.streaming = old.streaming
        /\ new.start = old.start /\ new.tried = old.tried /\ new.refused = old.refused /\ new.result = old.result
    BY <1>2 DEF Calls
  <1>6. nextAPIKeyIx' \in Keys
    BY <1>1, <1>2, NextIsKey
  <1> HIDE DEF new, old
  <1>7. InOrder(new) /\ AsFar(new) /\ Refused(new) /\ Told(new)
    BY <1>2, <1>5 DEF CallOK, InOrder, AsFar, Refused, Told
  <1> QED BY <1>1, <1>4, <1>6, <1>7, OneCall DEF CallOK

-----------------------------------------------------------------------------
(* Every outcome is a kind of failure or ok.                               *)
LEMMA KindOK ==
  ASSUME NEW outcome \in Outcomes
  PROVE  completionWithAPIKey(outcome) \in Kinds \cup {"ok"} /\ streamWithAPIKey(outcome) \in Kinds \cup {"ok"}
  BY DEF Outcomes, completionWithAPIKey, streamWithAPIKey, NewTransientError, Kinds

(* The call once a key has been tried with an outcome of some kind.        *)
Tried(call, key, kind) ==
  [call EXCEPT !.tried = Append(call.tried, key),
               !.refused = IF call.round = 1 /\ kind = "quota_exceeded" THEN call.refused \cup {key} ELSE call.refused]

(* What holds of a call new that has tried one more key than old.          *)
OneMore(old, kind, new) ==
  /\ new \in Calls
  /\ new.at = "try" /\ new.streaming = old.streaming /\ new.round = old.round /\ new.offset = old.offset
  /\ new.result = old.result
  /\ InOrder(new) /\ Len(new.tried) = old.offset + 1
  /\ old.round = 1 /\ kind = "quota_exceeded" =>
       \A i \in 1 .. Len(new.tried) : new.tried[i] \in new.refused
  /\ old.round = 2 => new.refused = old.refused

(* A key tried is the next in order; if all so far have refused, it joins  *)
(* them, and after the last one nothing but refusals is left.              *)
LEMMA TriedOK ==
  ASSUME NEW old \in Calls, CallOK(old), old.at = "try", NEW kind \in Kinds \cup {"ok"},
         NEW key, key = (old.start + old.offset) % KeyCount,
         NEW new, new = Tried(old, key, kind)
  PROVE  OneMore(old, kind, new)
  <1>1. old.start \in Keys /\ old.offset \in Keys /\ old.tried \in Seq(Keys) /\ old.refused \in SUBSET Keys
    BY Fields
  <1>2. key \in Keys
    BY <1>1, Place
  <1>3. Len(old.tried) = old.offset
    BY DEF CallOK, AsFar
  <1> DEFINE list == Append(old.tried, key)
             spent == IF old.round = 1 /\ kind = "quota_exceeded" THEN old.refused \cup {key} ELSE old.refused
  <1>4. list \in Seq(Keys) /\ spent \in SUBSET Keys
    BY SMT, <1>1, <1>2
  <1>5. Len(list) = old.offset + 1 /\ list[old.offset + 1] = key /\ \A i \in 1 .. old.offset : list[i] = old.tried[i]
    BY SMT, <1>1, <1>3
  <1>6. old.refused \subseteq spent /\ (old.round = 1 /\ kind = "quota_exceeded" => key \in spent)
    OBVIOUS
  <1>7. old.round = 2 => spent = old.refused
    BY SMT
  <1>8. new = [old EXCEPT !.tried = list, !.refused = spent]
    BY DEF Tried
  <1> HIDE DEF list, spent
  <1>9. new \in Calls
    BY <1>4, <1>8 DEF Calls
  <1>10. /\ new.at = "try" /\ new.streaming = old.streaming /\ new.round = old.round /\ new.offset = old.offset
         /\ new.start = old.start /\ new.result = old.result /\ new.tried = list /\ new.refused = spent
    BY <1>8 DEF Calls
  <1>11. old.offset \in Nat /\ old.offset + 1 <= KeyCount
    BY SMT, <1>1, KeyCountAssumption DEF Keys
  <1>12. \A i \in 1 .. old.offset + 1 : i = old.offset + 1 \/ i \in 1 .. old.offset
    BY SMT, <1>11
  <1>13. InOrder(new)
    <2>1. Len(new.tried) <= KeyCount
      BY <1>5, <1>10, <1>11
    <2>2. ASSUME NEW i \in 1 .. Len(new.tried) PROVE new.tried[i] = (new.start + (i - 1)) % KeyCount
      <3>1. CASE i = old.offset + 1
        <4>1. i - 1 = old.offset
          BY SMT, <3>1, <1>11
        <4> QED BY <3>1, <4>1, <1>5, <1>10
      <3>2. CASE i \in 1 .. old.offset
        BY <3>2, <1>3, <1>5, <1>10 DEF CallOK, InOrder
      <3> QED BY <3>1, <3>2, <1>5, <1>10, <1>12
    <2> QED BY <2>1, <2>2 DEF InOrder
  <1>14. ASSUME old.round = 1, kind = "quota_exceeded", NEW i \in 1 .. Len(new.tried)
         PROVE  new.tried[i] \in new.refused
    <2>1. CASE i = old.offset + 1
      BY <2>1, <1>5, <1>6, <1>10, <1>14
    <2>2. CASE i \in 1 .. old.offset
      <3>1. old.tried[i] \in old.refused
        BY <2>2, <1>3, <1>14 DEF CallOK, Refused
      <3> QED BY <2>2, <3>1, <1>5, <1>6, <1>10
    <2> QED BY <2>1, <2>2, <1>5, <1>10, <1>12
  <1> QED BY <1>5, <1>7, <1>9, <1>10, <1>13, <1>14 DEF OneMore

(* Trying the next key preserves the invariant.                            *)
LEMMA AttemptOK ==
  ASSUME KeysInv, NEW c \in KeyCalls, Attempt(c)
  PROVE  KeysInv'
  <1> DEFINE old == keyCall[c]
             kindOf(o) == IF old.streaming /\ old.round = 1 THEN streamWithAPIKey(o) ELSE completionWithAPIKey(o)
             next(t, kind) == CASE kind = "ok" -> [t EXCEPT !.at = "mark"]
                                [] kind = "quota_exceeded" /\ old.offset < KeyCount - 1 -> [t EXCEPT !.at = "advance"]
                                [] OTHER -> FailsWith(t, kind)
  <1>1. PICK outcome \in Outcomes :
          keyCall' = [keyCall EXCEPT ![c] = next(Tried(old, keyIx(c), kindOf(outcome)), kindOf(outcome))]
    BY DEF Attempt, Tried
  <1> DEFINE kind == kindOf(outcome)
             t == Tried(old, keyIx(c), kind)
             new == next(t, kind)
  <1>2. kind \in Kinds \cup {"ok"}
    BY KindOK
  <1>3. old \in Calls /\ CallOK(old) /\ old.at = "try" /\ nextAPIKeyIx \in Keys /\ nextAPIKeyIx' = nextAPIKeyIx
    BY DEF Attempt, KeysInv
  <1>4. keyIx(c) = (old.start + old.offset) % KeyCount
    BY DEF keyIx
  <1>5. /\ new = next(t, kind)
        /\ keyCall' = [keyCall EXCEPT ![c] = new]
    BY <1>1
  <1> DEFINE key == keyIx(c)
  <1>9. key = (old.start + old.offset) % KeyCount /\ t = Tried(old, key, kind)
    BY <1>4
  <1> HIDE DEF kind, t, key
  <1>6. /\ t \in Calls
        /\ t.at = "try" /\ t.streaming = old.streaming /\ t.round = old.round /\ t.offset = old.offset
        /\ t.result = old.result
        /\ InOrder(t) /\ Len(t.tried) = old.offset + 1
        /\ old.round = 1 /\ kind = "quota_exceeded" => \A i \in 1 .. Len(t.tried) : t.tried[i] \in t.refused
        /\ old.round = 2 => t.refused = old.refused
    <2> HIDE DEF old, new
    <2>1. OneMore(old, kind, t)
      BY <1>2, <1>3, <1>9, TriedOK
    <2> QED BY <2>1 DEF OneMore
  <1>7. /\ old.round \in {1, 2} /\ old.streaming \in BOOLEAN /\ old.offset \in Keys
        /\ old.round = 2 => old.streaming
        /\ old.round = 2 => /\ old.result \in Kinds \cup {"ok"}
                            /\ old.result = "quota_exceeded" => old.refused = Keys
    BY <1>3, Fields DEF CallOK, AsFar, Told
  <1>8. new \in Calls /\ CallOK(new)
    <2>1. CASE kind = "ok"
      <3>1. new = [t EXCEPT !.at = "mark"]
        BY <1>5, <2>1
      <3> HIDE DEF new
      <3>2. new \in Calls
        BY <1>6, <3>1 DEF Calls
      <3>3. /\ new.at = "mark" /\ new.round = t.round /\ new.streaming = t.streaming /\ new.start = t.start
            /\ new.offset = t.offset /\ new.tried = t.tried /\ new.refused = t.refused /\ new.result = t.result
        BY <1>6, <3>1 DEF Calls
      <3>4. InOrder(new) /\ AsFar(new) /\ Refused(new) /\ Told(new)
        BY <1>6, <1>7, <3>3 DEF InOrder, AsFar, Refused, Told
      <3> QED BY <3>2, <3>4 DEF CallOK
    <2>2. CASE kind = "quota_exceeded" /\ old.offset < KeyCount - 1
      <3>1. new = [t EXCEPT !.at = "advance"]
        BY <1>5, <2>2
      <3> HIDE DEF new
      <3>2. new \in Calls
        BY <1>6, <3>1 DEF Calls
      <3>3. /\ new.at = "advance" /\ new.round = t.round /\ new.streaming = t.streaming /\ new.start = t.start
            /\ new.offset = t.offset /\ new.tried = t.tried /\ new.refused = t.refused /\ new.result = t.result
        BY <1>6, <3>1 DEF Calls
      <3>4. InOrder(new) /\ AsFar(new) /\ Refused(new) /\ Told(new)
        BY <1>6, <1>7, <2>2, <3>3 DEF InOrder, AsFar, Refused, Told
      <3> QED BY <3>2, <3>4 DEF CallOK
    <2>3. CASE kind # "ok" /\ ~(kind = "quota_exceeded" /\ old.offset < KeyCount - 1)
      <3>1. new = FailsWith(t, kind)
        BY <1>5, <2>3
      <3> HIDE DEF new
      <3>2. kind \in Kinds
        BY <1>2, <2>3
      <3>3. old.round = 1 /\ kind = "quota_exceeded" => t.refused = Keys
        <4>1. kind = "quota_exceeded" => old.offset + 1 = KeyCount
          BY SMT, <1>7, <2>3, KeyCountAssumption DEF Keys
        <4> QED BY <4>1, <1>6, RoundComplete
      <3>4. CASE old.round = 1
        <4>1. PICK at \in {"done", "again"} : new = [t EXCEPT !.at = at, !.result = kind] /\ (at = "again" => old.streaming)
          <5>1. CASE old.streaming
            BY <5>1, <1>6, <3>1, <3>4 DEF FailsWith
          <5>2. CASE ~old.streaming
            BY <5>2, <1>6, <3>1 DEF FailsWith
          <5> QED BY <5>1, <5>2
        <4>2. new \in Calls
          BY <1>6, <3>2, <4>1 DEF Calls
        <4>3. /\ new.at = at /\ new.round = t.round /\ new.streaming = t.streaming /\ new.start = t.start
              /\ new.offset = t.offset /\ new.tried = t.tried /\ new.refused = t.refused /\ new.result = kind
          BY <1>6, <4>1 DEF Calls
        <4>4. InOrder(new) /\ AsFar(new) /\ Refused(new) /\ Told(new)
          BY <1>6, <1>7, <3>2, <3>3, <3>4, <4>1, <4>3 DEF InOrder, AsFar, Refused, Told
        <4> QED BY <4>2, <4>4 DEF CallOK
      <3>5. CASE old.round = 2
        <4>1. new = [t EXCEPT !.at = "done"]
          BY SMT, <1>6, <1>7, <3>1, <3>5 DEF FailsWith
        <4>2. new \in Calls
          BY <1>6, <4>1 DEF Calls
        <4>3. /\ new.at = "done" /\ new.round = t.round /\ new.streaming = t.streaming /\ new.start = t.start
              /\ new.offset = t.offset /\ new.tried = t.tried /\ new.refused = t.refused /\ new.result = t.result
          BY <1>6, <4>1 DEF Calls
        <4>4. InOrder(new) /\ AsFar(new) /\ Refused(new) /\ Told(new)
          BY <1>6, <1>7, <3>5, <4>3 DEF InOrder, AsFar, Refused, Told
        <4> QED BY <4>2, <4>4 DEF CallOK
      <3> QED BY <3>4, <3>5, <1>7
    <2> QED BY <2>1, <2>2, <2>3
  <1> HIDE DEF new
  <1> QED BY <1>3, <1>5, <1>8, OneCall

-----------------------------------------------------------------------------
(* Every step preserves the invariant.                                     *)
LEMMA KeysStepOK == KeysInv /\ [KeysNext]_keyVars => KeysInv'
  <1> SUFFICES ASSUME KeysInv, [KeysNext]_keyVars PROVE KeysInv'
    OBVIOUS
  <1>1. CASE KeysNext
    <2>1. PICK c \in KeyCalls :
            BeginCall(c) \/ Attempt(c) \/ markNextAPIKeyAfter(c) \/ setNextAPIKey(c) \/ AskAgain(c)
      BY <1>1 DEF KeysNext
    <2> QED BY <2>1, BeginCallOK, AttemptOK, MarkOK, AdvanceOK, AskAgainOK
  <1>2. CASE UNCHANGED keyVars
    BY <1>2 DEF keyVars, KeysInv
  <1> QED BY <1>1, <1>2

(* The invariant gives the property.                                       *)
LEMMA KeysInvImplies == KeysInv => QuotaOnlyIfAllSpent
  <1> SUFFICES ASSUME KeysInv, NEW c \in KeyCalls
               PROVE  /\ \A i, j \in DOMAIN keyCall[c].tried : i # j => keyCall[c].tried[i] # keyCall[c].tried[j]
                      /\ keyCall[c].at = "done" /\ keyCall[c].result # "ok" =>
                           /\ gatewayError(keyCall[c].result) # 500
                           /\ gatewayError(keyCall[c].result) = 429 => keyCall[c].refused = Keys
    BY DEF QuotaOnlyIfAllSpent
  <1> DEFINE call == keyCall[c]
  <1>1. call \in Calls /\ CallOK(call)
    BY DEF KeysInv
  <1> HIDE DEF call
  <1>2. \A i, j \in DOMAIN call.tried : i # j => call.tried[i] # call.tried[j]
    BY <1>1, RoundDistinct DEF CallOK
  <1>3. ASSUME call.at = "done", call.result # "ok"
        PROVE  /\ gatewayError(call.result) # 500
               /\ gatewayError(call.result) = 429 => call.refused = Keys
    <2>1. call.result \in Kinds /\ (call.result = "quota_exceeded" => call.refused = Keys)
      BY <1>1, <1>3 DEF CallOK, Told
    <2>2. gatewayError(call.result) \in {429, 502} /\ (gatewayError(call.result) = 429 => call.result = "quota_exceeded")
      BY SMT, <2>1 DEF gatewayError, Kinds
    <2> QED BY SMT, <2>1, <2>2
  <1> QED BY <1>2, <1>3 DEF call

(* However many keys an outbound has and however many calls share them: a  *)
(* call tries no key twice in a round, reports 429 only once every key has *)
(* refused it, and 500 for no failure of the upstream (ChatCompletion,     *)
(* StreamCompletion, markNextAPIKeyAfter, setNextAPIKey, gatewayError).    *)
THEOREM KeysCorrect == KeysSpec => []QuotaOnlyIfAllSpent
  <1>1. KeysInit => KeysInv
    BY KeysInitOK
  <1>2. KeysInv /\ [KeysNext]_keyVars => KeysInv'
    BY KeysStepOK
  <1>3. KeysInv => QuotaOnlyIfAllSpent
    BY KeysInvImplies
  <1> QED BY <1>1, <1>2, <1>3, PTL DEF KeysSpec

-----------------------------------------------------------------------------
(* Agent sessions *)

Entry == Session \cup {NoSession}

(* A session of an agent that declares heartbeats, not stopped.            *)
Going(s) == s = NoSession \/ (s.capable = TRUE /\ s.status # "stopped")

(* Its lease has just been renewed.                                        *)
Fresh(s) == s = NoSession \/ s.leaseIn = LeaseTTL

-----------------------------------------------------------------------------
(* What the calls of the store do, as far as the invariants need it.       *)

(* The age of a status is a natural number within Ages, and 0 is one.      *)
LEMMA AgesOK == Ages \subseteq Nat /\ 0 \in Ages /\ 0 \in 0 .. LeaseTTL /\ LeaseTTL \in 0 .. LeaseTTL
  BY SMT, SessionAssumption DEF Ages

(* Register leaves a stopped session alone and renews a lease.             *)
LEMMA RegisterOK ==
  ASSUME NEW s \in Entry, NEW c \in BOOLEAN
  PROVE  /\ Register(s, c) \in Entry
         /\ Stopped(s) => Register(s, c) = s
         /\ c /\ Going(s) => Going(Register(s, c)) /\ Fresh(Register(s, c))
  BY AgesOK DEF Register, Entry, Session, Status, Stopped, Going, Fresh, Renewed

(* Heartbeat leaves a stopped session alone and renews a lease.            *)
LEMMA HeartbeatOK ==
  ASSUME NEW s \in Entry
  PROVE  /\ Heartbeat(s) \in Entry
         /\ Stopped(s) => Heartbeat(s) = s
         /\ Going(s) => Going(Heartbeat(s)) /\ Fresh(Heartbeat(s))
         /\ s = NoSession => Heartbeat(s) = NoSession
  BY AgesOK DEF Heartbeat, Entry, Session, Status, Stopped, Going, Fresh, Renewed, WithStatus

(* MarkStopped leaves a stopped session alone.                             *)
LEMMA MarkStoppedOK ==
  ASSUME NEW s \in Entry
  PROVE  MarkStopped(s) \in Entry /\ (Stopped(s) => MarkStopped(s) = s)
  BY AgesOK DEF MarkStopped, Entry, Session, Status, Stopped, WithStatus

(* A hook event other than SessionEnd never stops a session, and no hook   *)
(* event touches its lease.                                                *)
LEMMA HookOK ==
  ASSUME NEW s \in Entry, NEW event \in STRING \X STRING
  PROVE  /\ ApplyHookEvent(s, event) \in Entry
         /\ Stopped(s) => ApplyHookEvent(s, event) = s
         /\ s = NoSession => ApplyHookEvent(s, event) = NoSession
         /\ s # NoSession => ApplyHookEvent(s, event).leaseIn = s.leaseIn
         /\ Going(s) /\ event[1] # "SessionEnd" => Going(ApplyHookEvent(s, event))
<1> DEFINE new == StatusForHookEvent(event, s.status)
<1>1. CASE s = NoSession \/ Stopped(s)
  BY <1>1 DEF ApplyHookEvent, Going, Entry
<1>2. CASE s # NoSession /\ ~Stopped(s)
  <2>1. s \in Session /\ s.status \in Status /\ s.status # "stopped"
    BY <1>2 DEF Entry, Stopped, Session
  <2>2. new \in Status /\ (event[1] # "SessionEnd" => new # "stopped")
    BY <2>1 DEF StatusForHookEvent, Status, Transient
  <2> HIDE DEF new
  <2>3. ApplyHookEvent(s, event) = [s EXCEPT !.status = new, !.since = 0]
    BY <1>2 DEF ApplyHookEvent, WithStatus, new
  <2> QED BY <1>2, <2>1, <2>2, <2>3, AgesOK DEF Session, Going, Stopped, Entry
<1> QED BY <1>1, <1>2

(* The reaper prunes or keeps a stopped session, and stops one of an agent *)
(* that declares heartbeats only when its lease has run out.               *)
LEMMA SweepOK ==
  ASSUME NEW s \in Entry
  PROVE  /\ Sweep(s) \in Entry
         /\ Stopped(s) => Sweep(s) = NoSession \/ Sweep(s) = s
         /\ s = NoSession => Sweep(s) = NoSession
         /\ s # NoSession /\ Going(s) /\ s.leaseIn > 0 =>
              Going(Sweep(s)) /\ (Sweep(s) # NoSession => Sweep(s).leaseIn = s.leaseIn)
<1>1. CASE s = NoSession \/ Stopped(s)
  BY <1>1 DEF Sweep, Entry, Stopped, Going
<1>2. CASE s # NoSession /\ ~Stopped(s)
  <2>1. s \in Session /\ s.leaseIn \in 0 .. LeaseTTL /\ s.status # "stopped"
    BY <1>2 DEF Entry, Session, Stopped
  <2>2. \/ Sweep(s) = s
        \/ Sweep(s) = WithStatus(s, "unknown")
        \/ s.capable /\ s.leaseIn = 0 /\ Sweep(s) = WithStatus(s, "stopped")
    BY <1>2 DEF Sweep
  <2>3. \A status \in Status : /\ WithStatus(s, status) \in Session
                               /\ WithStatus(s, status).status = status
                               /\ WithStatus(s, status).leaseIn = s.leaseIn
                               /\ WithStatus(s, status).capable = s.capable
    BY <2>1, AgesOK DEF WithStatus, Session
  <2> QED BY SMT, <1>2, <2>1, <2>2, <2>3 DEF Entry, Going, Status
<1> QED BY <1>1, <1>2

(* The import of a snapshot keeps such a session going, with a new lease.  *)
LEMMA ImportOK ==
  ASSUME NEW s \in Entry
  PROVE  /\ ImportSnapshot(s) \in Entry
         /\ s = NoSession => ImportSnapshot(s) = NoSession
         /\ Going(s) => Going(ImportSnapshot(s)) /\ Fresh(ImportSnapshot(s))
  BY AgesOK DEF ImportSnapshot, Entry, Session, Status, Stopped, Going, Fresh, Renewed, WithStatus

(* Time changes no status, and takes at most one unit off a lease.         *)
LEMMA OlderOK ==
  ASSUME NEW s \in Entry
  PROVE  /\ Older(s) \in Entry
         /\ Stopped(s) => Older(s) = NoSession \/ Stopped(Older(s))
         /\ s = NoSession => Older(s) = NoSession
         /\ s # NoSession => Older(s).leaseIn >= s.leaseIn - 1
         /\ Going(s) => Going(Older(s))
<1>1. CASE s = NoSession
  BY <1>1 DEF Older, Entry, Going, Stopped
<1>2. CASE s # NoSession
  <2>1. s \in Session /\ s.leaseIn \in 0 .. LeaseTTL
    BY <1>2 DEF Entry, Session
  <2>2. PICK since \in Ages : Older(s) =
          [s EXCEPT !.since = since, !.leaseIn = IF s.leaseIn > 0 THEN s.leaseIn - 1 ELSE 0]
    BY <1>2, <2>1 DEF Older, Session
  <2>3. (IF s.leaseIn > 0 THEN s.leaseIn - 1 ELSE 0) \in 0 .. LeaseTTL
    BY SMT, <2>1, SessionAssumption
  <2>4. /\ Older(s) \in Session
        /\ Older(s).status = s.status /\ Older(s).capable = s.capable
        /\ Older(s).leaseIn = IF s.leaseIn > 0 THEN s.leaseIn - 1 ELSE 0
    BY <2>1, <2>2, <2>3 DEF Session
  <2>5. Older(s).leaseIn >= s.leaseIn - 1
    BY SMT, <2>1, <2>4, SessionAssumption
  <2> QED BY <1>2, <2>4, <2>5 DEF Entry, Going, Stopped
<1> QED BY <1>1, <1>2

-----------------------------------------------------------------------------
(***************************************************************************)
(* The inductive invariant.                                                *)
(*                                                                         *)
(* Synced: what is on disk is the store unless the store is dirty, and     *)
(* what a save under way exported is the store unless the store is newer;  *)
(* until a save succeeds, the store stays dirty.                           *)
(***************************************************************************)
Synced ==
  /\ core = "up" /\ ~dirty => session = disk
  /\ core = "up" /\ saving # None /\ ~newer => session = saving
  /\ core = "up" /\ saving # None => dirty
  /\ core = "down" => saving = None

Untroubled == Alive /\ capable /\ ~ended /\ ~outage

(***************************************************************************)
(* Leased: while its agent runs, nobody ended it and there was no outage,  *)
(* the session is going wherever it is kept, and its lease covers the      *)
(* reports that may still be missed, counting this unit's.                 *)
(***************************************************************************)
Leased ==
  /\ phase \in {"new", "starting"} =>
       session = NoSession /\ disk = NoSession /\ saving \in {None, NoSession} /\ late = None
  /\ missed = LeaseTTL - 1 => outage
  /\ Untroubled =>
       /\ Going(session) /\ Going(disk) /\ (saving # None => Going(saving))
       /\ core = "up" /\ session # NoSession =>
            /\ session.leaseIn + missed + 1 >= LeaseTTL
            /\ reported => session.leaseIn + missed >= LeaseTTL

SessionsInv == TypeOK /\ Synced /\ Leased

Requests == {"register", "heartbeat", "stopped"}

-----------------------------------------------------------------------------
(* A change of the store keeps the snapshot's book-keeping right.          *)
LEMMA SetSessionOK ==
  ASSUME TypeOK, Synced, NEW s \in Entry, SetSession(s), UNCHANGED <<core, saving, disk>>
  PROVE  Synced' /\ session' = s /\ dirty' \in BOOLEAN /\ newer' \in BOOLEAN
  BY DEF TypeOK, Synced, SetSession

(* A request that reaches the store.                                       *)
LEMMA ReachesStoreOK ==
  ASSUME TypeOK, Synced, NEW request \in Requests, ReachesStore(request)
  PROVE  /\ Synced' /\ session' \in Entry /\ dirty' \in BOOLEAN /\ newer' \in BOOLEAN
         /\ ended' \in BOOLEAN /\ (ended => ended')
         /\ Stopped(session) => session' = session
         /\ request = "heartbeat" /\ session = NoSession => session' = NoSession
         /\ capable /\ ~ended' /\ Going(session) => Going(session') /\ Fresh(session')
<1>0. session \in Entry /\ capable \in BOOLEAN /\ ended \in BOOLEAN
  BY DEF TypeOK, Entry
<1>1. UNCHANGED <<core, saving, disk>> /\ Handle(request) /\ ended' = (ended \/ request = "stopped")
  BY DEF ReachesStore
<1>2. CASE request = "register"
  <2>1. SetSession(Register(session, capable))
    BY <1>1, <1>2 DEF Handle
  <2> QED BY <1>0, <1>1, <1>2, <2>1, RegisterOK, SetSessionOK
<1>3. CASE request = "heartbeat"
  <2>1. SetSession(Heartbeat(session))
    BY <1>1, <1>3 DEF Handle
  <2> QED BY <1>0, <1>1, <1>3, <2>1, HeartbeatOK, SetSessionOK
<1>4. CASE request = "stopped"
  <2>1. SetSession(MarkStopped(session))
    BY <1>1, <1>4 DEF Handle
  <2> QED BY <1>0, <1>1, <1>4, <2>1, MarkStoppedOK, SetSessionOK
<1> QED BY <1>2, <1>3, <1>4 DEF Requests

(* A request of the launcher, answered or not, takes the place of this     *)
(* unit's report: afterwards the lease covers one unit more.               *)
LEMMA PostOK ==
  ASSUME SessionsInv, NEW request \in Requests, Answered(request) \/ Failed(request)
  PROVE  /\ UNCHANGED <<core, saving, disk, swept, restarts, capable>>
         /\ Synced' /\ session' \in Entry /\ dirty' \in BOOLEAN /\ newer' \in BOOLEAN
         /\ ended' \in BOOLEAN /\ outage' \in BOOLEAN /\ (ended => ended') /\ (outage => outage')
         /\ missed' \in 0 .. LeaseTTL - 1 /\ (missed' = LeaseTTL - 1 => outage')
         /\ late' \in Requests \cup {None} /\ faults' \in 0 .. MaxFaults
         /\ Stopped(session) => session' = session
         /\ capable /\ ~ended' /\ ~outage' /\ Going(session) =>
              /\ Going(session')
              /\ (session # NoSession => session.leaseIn + missed + 1 >= LeaseTTL) =>
                   (core = "up" /\ session' # NoSession => session'.leaseIn + missed' >= LeaseTTL)
<1> USE SessionAssumption, ReporterAssumption
<1>0. /\ TypeOK /\ Synced /\ session \in Entry /\ late \in Requests \cup {None} /\ faults \in 0 .. MaxFaults
      /\ missed \in 0 .. LeaseTTL - 1 /\ outage \in BOOLEAN /\ ended \in BOOLEAN
      /\ dirty \in BOOLEAN /\ newer \in BOOLEAN /\ capable \in BOOLEAN
      /\ missed = LeaseTTL - 1 => outage
  BY DEF SessionsInv, TypeOK, Entry, Requests, Leased
<1>1. late' \in Requests \cup {None} /\ faults' \in 0 .. MaxFaults
  BY SMT, <1>0 DEF Answered, Failed, Fault
<1>2. CASE ReachesStore(request)
  <2>1. UNCHANGED <<core, saving, disk, swept, restarts, capable, outage>> /\ missed' = 0
    BY <1>2 DEF ReachesStore
  <2>2. Fresh(session') /\ session' # NoSession => session'.leaseIn + missed' >= LeaseTTL
    BY SMT, <2>1 DEF Fresh
  <2> QED BY SMT, <1>0, <1>1, <1>2, <2>1, <2>2, ReachesStoreOK
<1>3. CASE StoreUntouched
  <2>1. UNCHANGED <<core, session, dirty, newer, saving, disk, swept, restarts, capable, ended>>
    BY <1>3 DEF StoreUntouched, coreVars
  <2>2. /\ missed' = IF core = "up" /\ missed < LeaseTTL - 1 THEN missed + 1 ELSE missed
        /\ outage' = (outage \/ missed' = LeaseTTL - 1)
    BY <1>3 DEF StoreUntouched
  <2>3. Synced'
    BY <1>0, <2>1 DEF Synced
  <2>4. missed' \in 0 .. LeaseTTL - 1 /\ outage' \in BOOLEAN /\ (core = "up" /\ ~outage' => missed' = missed + 1)
    BY SMT, <1>0, <2>2
  <2>5. session # NoSession => session.leaseIn \in Nat
    BY SMT, <1>0 DEF Entry, Session
  <2>6. ~outage' /\ (session # NoSession => session.leaseIn + missed + 1 >= LeaseTTL) =>
          (core = "up" /\ session' # NoSession => session'.leaseIn + missed' >= LeaseTTL)
    BY SMT, <1>0, <2>1, <2>4, <2>5
  <2>7. Going(session) => Going(session')
    BY <2>1 DEF Going
  <2> QED BY <1>0, <1>1, <2>1, <2>2, <2>3, <2>4, <2>6, <2>7
<1> QED BY <1>2, <1>3 DEF Answered, Failed

-----------------------------------------------------------------------------
(* The invariant holds of a fresh core and a launcher not yet started.     *)
LEMMA SessionsInitOK == Init => SessionsInv
<1> SUFFICES ASSUME Init PROVE SessionsInv
  OBVIOUS
<1>1. TypeOK
  <2>1. 0 \in 0 .. MaxFaults /\ 0 \in 0 .. MaxRestarts /\ 0 \in 0 .. LeaseTTL - 1
    BY SMT, SessionAssumption, ReporterAssumption
  <2>2. capable \in BOOLEAN
    BY ReporterAssumption DEF Init
  <2> QED BY <2>1, <2>2 DEF Init, TypeOK, Phases
<1>2. Synced
  BY DEF Init, Synced
<1>3. Leased
  BY SMT, SessionAssumption, ReporterAssumption DEF Init, Leased, Untroubled, Alive
<1> QED BY <1>1, <1>2, <1>3 DEF SessionsInv

(* The launcher's reports: after one, this unit's report is made.          *)
LEMMA ReportedOK ==
  ASSUME SessionsInv, NEW request \in Requests, Answered(request) \/ Failed(request),
         Alive, phase' = "running", reported' = TRUE, registered' \in BOOLEAN
  PROVE  SessionsInv'
<1> USE SessionAssumption
<1>1. TypeOK'
  BY PostOK DEF SessionsInv, TypeOK, Phases, Requests, Entry
<1>2. Untroubled' => Untroubled /\ ~ended' /\ ~outage'
  BY PostOK DEF Untroubled, Alive, SessionsInv, TypeOK
<1>3. Leased'
  <2>1. CASE Untroubled'
    <3>1. /\ Going(session) /\ Going(disk) /\ (saving # None => Going(saving)) /\ capable
          /\ core = "up" /\ session # NoSession => session.leaseIn + missed + 1 >= LeaseTTL
      BY <1>2, <2>1 DEF SessionsInv, Leased, Untroubled
    <3>2. Going(disk') /\ (saving' # None => Going(saving'))
      BY <3>1, PostOK DEF Going
    <3>3. Going(session') /\ (core' = "up" /\ session' # NoSession => session'.leaseIn + missed' >= LeaseTTL)
      BY <1>2, <2>1, <3>1, PostOK
    <3>4. session' # NoSession => session'.leaseIn \in Nat /\ missed' \in Nat
      BY SMT, <1>1 DEF TypeOK, Session
    <3> QED BY SMT, <3>2, <3>3, <3>4, PostOK DEF Leased
  <2> QED BY <2>1, PostOK DEF Leased
<1> QED BY <1>1, <1>3, PostOK DEF SessionsInv

(* Every step of the launcher that makes a report.                         *)
LEMMA ReportOK == ASSUME SessionsInv, Report PROVE SessionsInv'
<1>1. ASSUME InitialRegister \/ RetryRegister \/ Reregister PROVE SessionsInv'
  <2>1. /\ Answered("register") \/ Failed("register")
        /\ Alive /\ phase' = "running" /\ reported' = TRUE /\ registered' \in BOOLEAN
    BY <1>1 DEF InitialRegister, RetryRegister, Reregister, Alive, SessionsInv, TypeOK
  <2> QED BY <2>1, ReportedOK DEF Requests
<1>2. ASSUME SendHeartbeat PROVE SessionsInv'
  <2>1. /\ Answered("heartbeat") \/ Failed("heartbeat")
        /\ Alive /\ phase' = "running" /\ reported' = TRUE /\ registered' \in BOOLEAN
    BY <1>2 DEF SendHeartbeat, Alive, SessionsInv, TypeOK
  <2> QED BY <2>1, ReportedOK DEF Requests
<1>3. ASSUME HeartbeatNotFound PROVE SessionsInv'
  <2>1. /\ Answered("heartbeat") /\ session = NoSession /\ phase = "running" /\ phase' = "reregister"
        /\ UNCHANGED <<registered, reported>>
    BY <1>3 DEF HeartbeatNotFound
  <2>2. session' = NoSession
    BY <2>1, ReachesStoreOK DEF Answered, SessionsInv, Requests
  <2>3. TypeOK'
    BY <2>1, PostOK DEF SessionsInv, TypeOK, Phases, Requests, Entry
  <2>4. Untroubled' => Untroubled
    BY <2>1, PostOK DEF Untroubled, Alive, SessionsInv, TypeOK, Requests
  <2>5. Leased'
    BY <2>1, <2>2, <2>4, PostOK DEF SessionsInv, Leased, Going, Requests
  <2> QED BY <2>1, <2>3, <2>5, PostOK DEF SessionsInv, Requests
<1>4. ASSUME NoReport PROVE SessionsInv'
  <2>1. TypeOK' /\ Synced'
    BY <1>4 DEF NoReport, SessionsInv, TypeOK, Synced, coreVars
  <2>2. Leased'
    BY <1>4 DEF NoReport, SessionsInv, Leased, Untroubled, Alive, coreVars
  <2> QED BY <2>1, <2>2 DEF SessionsInv
<1> QED BY <1>1, <1>2, <1>3, <1>4 DEF Report

(* The other steps of the launcher start it or take it out of Alive.       *)
LEMMA LauncherOK ==
  ASSUME SessionsInv, Launch \/ AgentExits \/ FinalRegister \/ PostStopped \/ LauncherKilled
  PROVE  SessionsInv'
<1>1. ASSUME Launch PROVE SessionsInv'
  <2>1. TypeOK' /\ Synced'
    BY <1>1 DEF Launch, SessionsInv, TypeOK, Synced, coreVars, Phases
  <2>2. Leased'
    BY <1>1 DEF Launch, SessionsInv, Leased, Going, coreVars
  <2> QED BY <2>1, <2>2 DEF SessionsInv
<1>2. ASSUME AgentExits \/ LauncherKilled PROVE SessionsInv'
  <2>1. TypeOK' /\ Synced'
    BY <1>2 DEF AgentExits, LauncherKilled, SessionsInv, TypeOK, Synced, coreVars, Phases
  <2>2. Leased'
    BY <1>2 DEF AgentExits, LauncherKilled, SessionsInv, Leased, Untroubled, Alive, coreVars
  <2> QED BY <2>1, <2>2 DEF SessionsInv
<1>3. ASSUME FinalRegister \/ PostStopped PROVE SessionsInv'
  <2>1. PICK request \in Requests : Answered(request) \/ Failed(request)
    BY <1>3 DEF FinalRegister, PostStopped, Requests
  <2>2. phase' \in {"stopping", "done"} /\ registered' \in BOOLEAN /\ UNCHANGED reported
    BY <1>3 DEF FinalRegister, PostStopped, SessionsInv, TypeOK
  <2>3. TypeOK'
    BY <2>1, <2>2, PostOK DEF SessionsInv, TypeOK, Phases, Requests, Entry
  <2>4. Leased'
    BY <2>1, <2>2, PostOK DEF Leased, Untroubled, Alive
  <2> QED BY <2>1, <2>3, <2>4, PostOK DEF SessionsInv
<1> QED BY <1>1, <1>2, <1>3

-----------------------------------------------------------------------------
(* A change of the store that keeps the session going and its lease.       *)
LEMMA StoreStepOK ==
  ASSUME SessionsInv, NEW s \in Entry, SetSession(s), s = NoSession \/ session # NoSession,
         UNCHANGED <<core, saving, disk, restarts, phase, capable, registered, reported, late,
                     faults, missed, outage>>,
         ended' \in BOOLEAN, ended => ended', swept' \in BOOLEAN,
         Untroubled /\ ~ended' => Going(s) /\ (s # NoSession => s.leaseIn = session.leaseIn)
  PROVE  SessionsInv'
<1>1. Synced' /\ session' = s /\ dirty' \in BOOLEAN /\ newer' \in BOOLEAN
  BY SetSessionOK DEF SessionsInv
<1>2. TypeOK'
  BY SMT, <1>1 DEF SessionsInv, TypeOK, Entry
<1>3. Untroubled' => Untroubled /\ ~ended'
  BY DEF Untroubled, Alive, SessionsInv, TypeOK
<1>4. Leased'
  BY <1>1, <1>3 DEF SessionsInv, Leased, Going
<1> QED BY <1>1, <1>2, <1>4 DEF SessionsInv

(* A hook event.                                                           *)
LEMMA HookEventOK == ASSUME SessionsInv, HookEvent PROVE SessionsInv'
<1>1. PICK event \in HookEvents : /\ SetSession(ApplyHookEvent(session, event))
                                  /\ ended' = (ended \/ event[1] = "SessionEnd")
  BY DEF HookEvent
<1>2. event \in STRING \X STRING /\ session \in Entry
  BY ReporterAssumption DEF SessionsInv, TypeOK, Entry
<1> DEFINE s == ApplyHookEvent(session, event)
<1>3. /\ s \in Entry /\ (s = NoSession \/ session # NoSession)
      /\ Untroubled /\ ~ended' => Going(s) /\ (s # NoSession => s.leaseIn = session.leaseIn)
  BY <1>1, <1>2, HookOK DEF SessionsInv, Leased
<1>4. /\ UNCHANGED <<core, saving, disk, restarts, phase, capable, registered, reported, late,
                     faults, missed, outage>>
      /\ ended' \in BOOLEAN /\ (ended => ended') /\ swept' \in BOOLEAN
  BY <1>1 DEF HookEvent, SessionsInv, TypeOK
<1> HIDE DEF s
<1> QED BY <1>1, <1>3, <1>4, StoreStepOK DEF s

(* A sweep of the reaper: the lease of an untroubled session has not run   *)
(* out, since fewer reports were missed than it allows.                    *)
LEMMA ReaperSweepOK == ASSUME SessionsInv, ReaperSweep PROVE SessionsInv'
<1> DEFINE s == Sweep(session)
<1>1. session \in Entry /\ missed \in 0 .. LeaseTTL - 1
  BY DEF SessionsInv, TypeOK, Entry
<1>2. Untroubled /\ session # NoSession => session.leaseIn > 0
  <2>1. session # NoSession => session.leaseIn \in Nat
    BY SMT, <1>1 DEF Entry, Session
  <2>2. Untroubled => missed # LeaseTTL - 1
    BY DEF SessionsInv, Leased, Untroubled
  <2>3. Untroubled /\ session # NoSession => session.leaseIn + missed + 1 >= LeaseTTL
    BY DEF SessionsInv, Leased, ReaperSweep
  <2> QED BY SMT, <1>1, <2>1, <2>2, <2>3, SessionAssumption
<1>3. /\ s \in Entry /\ (s = NoSession \/ session # NoSession)
      /\ Untroubled => Going(s) /\ (s # NoSession => s.leaseIn = session.leaseIn)
  BY <1>1, <1>2, SweepOK DEF SessionsInv, Leased
<1>4. /\ SetSession(s) /\ UNCHANGED <<core, saving, disk, restarts, phase, capable, registered,
                                     reported, late, faults, missed, outage>>
      /\ ended' \in BOOLEAN /\ (ended => ended') /\ swept' \in BOOLEAN
  BY DEF ReaperSweep, SessionsInv, TypeOK, launcherVars
<1> HIDE DEF s
<1> QED BY <1>3, <1>4, StoreStepOK

(* A request the launcher has given up arrives after all.                  *)
LEMMA LateArrivalOK == ASSUME SessionsInv, LateArrival PROVE SessionsInv'
<1>1. /\ late \in Requests /\ ReachesStore(late) /\ late' = None /\ missed' = 0
      /\ UNCHANGED <<core, saving, disk, swept, restarts, capable, phase, registered, reported,
                     faults, outage>>
  BY DEF LateArrival, ReachesStore, SessionsInv, TypeOK, Requests
<1>2. /\ Synced' /\ session' \in Entry /\ dirty' \in BOOLEAN /\ newer' \in BOOLEAN
      /\ ended' \in BOOLEAN /\ (ended => ended')
      /\ capable /\ ~ended' /\ Going(session) => Going(session') /\ Fresh(session')
  BY <1>1, ReachesStoreOK DEF SessionsInv
<1>3. TypeOK'
  BY SMT, <1>1, <1>2, SessionAssumption DEF SessionsInv, TypeOK, Entry
<1>4. phase \notin {"new", "starting"}
  BY DEF LateArrival, SessionsInv, Leased
<1>5. Untroubled' => Untroubled /\ ~ended' /\ capable
  BY <1>1, <1>2 DEF Untroubled, Alive
<1>6. missed' # LeaseTTL - 1
  BY SMT, <1>1, SessionAssumption, ReporterAssumption
<1>7. Untroubled' => /\ Going(session') /\ Going(disk') /\ (saving' # None => Going(saving'))
                     /\ Fresh(session')
  BY <1>1, <1>2, <1>5 DEF SessionsInv, Leased, Going
<1>8. Fresh(session') /\ session' # NoSession => session'.leaseIn + missed' >= LeaseTTL
                                                /\ session'.leaseIn + missed' + 1 >= LeaseTTL
  BY SMT, <1>1, SessionAssumption DEF Fresh
<1>9. Leased'
  BY <1>1, <1>4, <1>6, <1>7, <1>8 DEF Leased
<1> QED BY <1>2, <1>3, <1>9 DEF SessionsInv

(* The snapshot store: a save under way, and the end of the core.          *)
LEMMA SnapshotOK ==
  ASSUME SessionsInv, SaveExport \/ SaveWrite \/ Shutdown \/ CloseSnapshotStore \/ Crash
  PROVE  SessionsInv'
<1>1. ASSUME SaveExport PROVE SessionsInv'
  <2>1. TypeOK' /\ Synced'
    BY <1>1 DEF SaveExport, SessionsInv, TypeOK, Synced, launcherVars
  <2>2. Leased'
    BY <1>1 DEF SaveExport, SessionsInv, Leased, Untroubled, Alive, Going, launcherVars
  <2> QED BY <2>1, <2>2 DEF SessionsInv
<1>2. ASSUME SaveWrite PROVE SessionsInv'
  <2>1. faults' \in 0 .. MaxFaults
    <3>1. faults' = faults \/ (faults < MaxFaults /\ faults' = faults + 1)
      BY <1>2 DEF SaveWrite, Fault
    <3>2. faults \in 0 .. MaxFaults
      BY DEF SessionsInv, TypeOK
    <3> QED BY SMT, <3>1, <3>2, ReporterAssumption
  <2>2. TypeOK'
    <3>1. disk' \in Session \cup {NoSession} /\ dirty' \in BOOLEAN
      BY <1>2 DEF SaveWrite, SessionsInv, TypeOK
    <3>2. /\ saving' = None /\ newer' = FALSE
          /\ UNCHANGED <<core, session, swept, restarts, phase, capable, registered, reported, late,
                         missed, ended, outage>>
      BY <1>2 DEF SaveWrite
    <3> QED BY <2>1, <3>1, <3>2 DEF SessionsInv, TypeOK
  <2>3. Synced'
    <3>1. core = "up" /\ saving # None /\ saving' = None /\ UNCHANGED <<core, session>>
      BY <1>2 DEF SaveWrite
    <3>2. (disk' = saving /\ dirty' = newer) \/ dirty' = dirty
      BY <1>2 DEF SaveWrite
    <3>3. dirty /\ (~newer => session = saving)
      BY <3>1 DEF SessionsInv, Synced
    <3>4. ~dirty' => session' = disk'
      BY <3>1, <3>2, <3>3
    <3> QED BY <3>1, <3>4 DEF Synced
  <2>4. disk' = disk \/ (disk' = saving /\ saving # None)
    BY <1>2 DEF SaveWrite
  <2>5. Leased'
    BY <1>2, <2>4 DEF SaveWrite, SessionsInv, Leased, Untroubled, Alive, Going
  <2> QED BY <2>2, <2>3, <2>5 DEF SessionsInv
<1>3. ASSUME Shutdown PROVE SessionsInv'
  <2>1. TypeOK' /\ Synced'
    BY SMT, <1>3, ReporterAssumption DEF Shutdown, SessionsInv, TypeOK, Synced, launcherVars
  <2>2. Leased'
    BY <1>3 DEF Shutdown, SessionsInv, Leased, Untroubled, Alive, Going, launcherVars
  <2> QED BY <2>1, <2>2 DEF SessionsInv
<1>4. ASSUME CloseSnapshotStore \/ Crash PROVE SessionsInv'
  <2>1. /\ session' = NoSession /\ saving' = None /\ core' = "down" /\ disk' \in {disk, session}
        /\ dirty' = FALSE /\ newer' = FALSE /\ swept' = FALSE /\ UNCHANGED launcherVars
    BY <1>4 DEF CloseSnapshotStore, Crash
  <2>2. TypeOK' /\ Synced'
    <3>1. restarts' \in 0 .. MaxRestarts
      BY SMT, <1>4, ReporterAssumption DEF CloseSnapshotStore, Crash, SessionsInv, TypeOK
    <3>2. disk' \in Session \cup {NoSession}
      BY <2>1 DEF SessionsInv, TypeOK
    <3> QED BY <2>1, <3>1, <3>2 DEF SessionsInv, TypeOK, Synced, launcherVars
  <2>3. Leased'
    BY <2>1 DEF SessionsInv, Leased, Untroubled, Alive, Going, launcherVars
  <2> QED BY <2>2, <2>3 DEF SessionsInv
<1> QED BY <1>1, <1>2, <1>3, <1>4

(* A restart, which gives every session it keeps going a new lease.        *)
LEMMA RestartOK == ASSUME SessionsInv, Restart PROVE SessionsInv'
<1>1. disk \in Entry /\ saving = None
  BY DEF Restart, SessionsInv, TypeOK, Entry, Synced
<1>2. /\ session' = ImportSnapshot(disk) /\ dirty' = (session' # disk) /\ newer' = FALSE /\ missed' = 0
      /\ core' = "up"
      /\ UNCHANGED <<saving, disk, swept, restarts, phase, capable, registered, reported, late,
                     faults, ended, outage>>
  BY DEF Restart
<1>3. /\ session' \in Entry /\ (disk = NoSession => session' = NoSession)
      /\ Going(disk) => Going(session') /\ Fresh(session')
  BY <1>1, <1>2, ImportOK
<1>4. TypeOK' /\ Synced'
  <2>1. dirty' \in BOOLEAN /\ (~dirty' => session' = disk')
    BY <1>2
  <2>2. missed' \in 0 .. LeaseTTL - 1
    BY SMT, <1>2, SessionAssumption
  <2>3. TypeOK'
    BY <1>2, <1>3, <2>1, <2>2 DEF SessionsInv, TypeOK, Entry
  <2> QED BY <1>1, <1>2, <2>1, <2>3 DEF Synced
<1>5. missed' # LeaseTTL - 1
  BY SMT, <1>2, SessionAssumption, ReporterAssumption
<1>6. Fresh(session') /\ session' # NoSession => session'.leaseIn + missed' >= LeaseTTL
                                                /\ session'.leaseIn + missed' + 1 >= LeaseTTL
  BY SMT, <1>2, SessionAssumption DEF Fresh
<1>7. Untroubled' => Going(disk)
  BY <1>2 DEF SessionsInv, Leased, Untroubled, Alive
<1>8. Leased'
  BY <1>1, <1>2, <1>3, <1>5, <1>6, <1>7 DEF SessionsInv, Leased, Going
<1> QED BY <1>4, <1>8 DEF SessionsInv

(* A unit of time, in which a running launcher has made its report.        *)
LEMMA TickOK == ASSUME SessionsInv, Tick PROVE SessionsInv'
<1>1. session \in Entry /\ disk \in Entry /\ missed \in 0 .. LeaseTTL - 1
  BY DEF SessionsInv, TypeOK, Entry
<1>2. /\ session' = Older(session) /\ disk' = Older(disk) /\ saving = None
      /\ swept' = FALSE /\ reported' = FALSE /\ (phase = "running" => reported)
      /\ phase \in {"running", "done", "new"}
      /\ UNCHANGED <<core, dirty, newer, saving, restarts, phase, capable, registered, late,
                     faults, missed, ended, outage>>
  BY DEF Tick
<1>3. TypeOK'
  BY <1>1, <1>2, OlderOK DEF SessionsInv, TypeOK, Entry
<1>4. Synced'
  BY <1>2 DEF SessionsInv, Synced
<1>5. Untroubled' => Untroubled /\ reported
  BY <1>2 DEF Untroubled, Alive
<1>6. session # NoSession => session.leaseIn \in Nat
  BY SMT, <1>1 DEF Entry, Session
<1>7. session' # NoSession => session # NoSession /\ session'.leaseIn \in Nat
                              /\ session'.leaseIn >= session.leaseIn - 1
  BY SMT, <1>1, <1>2, OlderOK, <1>3 DEF TypeOK, Session
<1>8. Untroubled' /\ core' = "up" /\ session' # NoSession => session'.leaseIn + missed' + 1 >= LeaseTTL
  <2>1. Untroubled' /\ core' = "up" /\ session' # NoSession => session.leaseIn + missed >= LeaseTTL
    BY <1>2, <1>5, <1>7 DEF SessionsInv, Leased
  <2> QED BY SMT, <1>1, <1>2, <1>6, <1>7, <2>1, SessionAssumption
<1>9. Untroubled' => Going(session') /\ Going(disk')
  BY <1>1, <1>2, <1>5, OlderOK DEF SessionsInv, Leased
<1>10. phase' \in {"new", "starting"} =>
         session' = NoSession /\ disk' = NoSession /\ saving' \in {None, NoSession} /\ late' = None
  BY <1>1, <1>2, OlderOK DEF SessionsInv, Leased
<1>11. missed' = LeaseTTL - 1 => outage'
  BY <1>2 DEF SessionsInv, Leased
<1>12. Leased'
  BY <1>2, <1>8, <1>9, <1>10, <1>11 DEF Leased
<1> QED BY <1>3, <1>4, <1>12 DEF SessionsInv

(* Every step preserves the invariant.                                     *)
LEMMA SessionsStepOK == SessionsInv /\ [Next]_vars => SessionsInv'
<1> SUFFICES ASSUME SessionsInv, [Next]_vars PROVE SessionsInv'
  OBVIOUS
<1>1. CASE Next
  BY <1>1, ReportOK, LauncherOK, HookEventOK, LateArrivalOK, ReaperSweepOK, SnapshotOK, RestartOK,
     TickOK DEF Next
<1>2. CASE UNCHANGED vars
  BY SMT, <1>2 DEF vars, coreVars, launcherVars, SessionsInv, TypeOK, Synced, Leased, Untroubled, Alive
<1> QED BY <1>1, <1>2

(* The invariant holds in every reachable state.                           *)
LEMMA SessionsInvariant == Spec => []SessionsInv
  BY SessionsInitOK, SessionsStepOK, PTL DEF Spec

-----------------------------------------------------------------------------
(***************************************************************************)
(* Whenever the flush ticker has nothing to write, latest.json holds what  *)
(* the store holds (save and writeSnapshotAtomic, snapshot_store.go).      *)
(***************************************************************************)
THEOREM SnapshotCorrect == Spec => []SnapshotInSync
<1>1. SessionsInv => SnapshotInSync
  BY DEF SessionsInv, Synced, SnapshotInSync
<1> QED BY <1>1, SessionsInvariant, PTL

(***************************************************************************)
(* The reaper never ends the session of a running agent that sends its     *)
(* heartbeats, for any lease longer than the ticker's interval, unless the *)
(* network lost as many reports in a row as the lease allows (Sweep and    *)
(* Heartbeat, store.go; importSnapshot, snapshot_store.go).                *)
(***************************************************************************)
THEOREM NoFalseStopCorrect == Spec => []NoFalseStop
<1>1. SessionsInv => NoFalseStop
  BY DEF SessionsInv, Leased, Untroubled, NoFalseStop, Going, Stopped
<1> QED BY <1>1, SessionsInvariant, PTL

(* What a step makes of a stopped session while the core runs.             *)
LEMMA StoppedStepOK ==
  ASSUME SessionsInv, Next, core = "up", core' # "down", Stopped(session)
  PROVE  session' = NoSession \/ Stopped(session')
<1>0. session \in Entry
  BY DEF SessionsInv, TypeOK, Entry
<1>1. CASE \E request \in Requests : Answered(request) \/ Failed(request)
  <2>1. session' = session
    BY <1>1, PostOK
  <2> QED BY <2>1 DEF Stopped
<1>2. CASE LateArrival
  <2>1. late \in Requests /\ ReachesStore(late)
    BY <1>2 DEF LateArrival, SessionsInv, TypeOK, Requests
  <2>2. session' = session
    BY <2>1, ReachesStoreOK DEF SessionsInv
  <2> QED BY <2>2 DEF Stopped
<1>3. CASE HookEvent
  <2>1. PICK event \in HookEvents : session' = ApplyHookEvent(session, event)
    BY <1>3 DEF HookEvent, SetSession
  <2>2. session' = session
    BY <1>0, <2>1, HookOK, ReporterAssumption
  <2> QED BY <2>2 DEF Stopped
<1>4. CASE ReaperSweep
  <2>1. session' = Sweep(session)
    BY <1>4 DEF ReaperSweep, SetSession
  <2> QED BY <1>0, <2>1, SweepOK DEF Stopped
<1>5. CASE Tick
  BY <1>0, <1>5, OlderOK DEF Tick
<1>6. CASE UNCHANGED session
  BY <1>6 DEF Stopped
<1>7. InitialRegister \/ RetryRegister \/ SendHeartbeat \/ HeartbeatNotFound \/ Reregister
        \/ FinalRegister \/ PostStopped
        => \E request \in Requests : Answered(request) \/ Failed(request)
  BY DEF InitialRegister, RetryRegister, SendHeartbeat, HeartbeatNotFound, Reregister,
         FinalRegister, PostStopped, Requests
<1>8. NoReport \/ Launch \/ AgentExits \/ LauncherKilled \/ SaveExport \/ SaveWrite \/ Shutdown
        => UNCHANGED session
  BY DEF NoReport, Launch, AgentExits, LauncherKilled, SaveExport, SaveWrite, Shutdown, coreVars
<1>9. ~CloseSnapshotStore /\ ~Crash /\ ~Restart
  BY DEF CloseSnapshotStore, Crash, Restart
<1> QED BY <1>1, <1>2, <1>3, <1>4, <1>5, <1>6, <1>7, <1>8, <1>9 DEF Next, Report

(***************************************************************************)
(* No late heartbeat, hook, registration or sweep revives a stopped        *)
(* session of a running core (Register, Heartbeat, ApplyHookEvent and      *)
(* Sweep, store.go).                                                       *)
(***************************************************************************)
THEOREM StoppedIsFinalCorrect == Spec => StoppedIsFinal
<1>1. SessionsInv /\ [Next]_vars =>
        [core = "up" /\ core' # "down" /\ Stopped(session)
           => session' = NoSession \/ Stopped(session')]_vars
  BY StoppedStepOK
<1> QED BY <1>1, SessionsInvariant, PTL DEF Spec, StoppedIsFinal
=============================================================================
