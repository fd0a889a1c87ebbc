-------------------------------- MODULE OAuth -------------------------------
(***************************************************************************)
(* One consumer OAuth credential: the manager and its store                *)
(* (internal/oauth), the flows that connect an account, and the providers' *)
(* requests that use the credential, refresh it when it expires, and once  *)
(* more when the upstream refuses it (internal/provider).                  *)
(*                                                                         *)
(* The authorization server is external.  Each grant or refresh issues a   *)
(* new access token; a refresh usually takes the refresh token in exchange *)
(* for a new one, and a refresh token that has been exchanged is refused.  *)
(* Tokens are numbered in the order they are issued; 0 is no token.        *)
(***************************************************************************)
EXTENDS Integers, FiniteSets, Sequences

CONSTANTS Callers,     \* provider requests that use the credential
          Pollers,     \* admin requests that complete a flow
          Flows,       \* the flows that can be started
          MaxTokens,   \* bound: tokens issued
          MaxLost,     \* bound: answers and saves lost
          NoCredential

ASSUME OAuthAssumption == NoCredential \notin [access : Nat, refresh : Nat, fresh : BOOLEAN]

VARIABLES credential,   \* the file: [access, refresh, fresh], or NoCredential
          refreshMu,    \* who holds the manager's refresh lock: a set of callers
          invalidated,  \* the credential source's flag
          caller,       \* per request: [at, force, has, next, tries]
          flows,        \* per flow id: "new", then its provider while it is open, then "gone"
          poller,       \* per admin request: [at, flow]
          issued,       \* external: the number of tokens issued
          honoured,     \* external: the refresh tokens the server takes
          refused,      \* external: the access tokens the upstream refuses
          lost,         \* history: refresh tokens whose answer or save was lost
          saves,        \* history: credentials saved per flow
          deleted       \* history: the callers refreshing when it was deleted

oauthVars == <<credential, refreshMu, invalidated, caller, flows, poller,
               issued, honoured, refused, lost, saves, deleted>>
tokenVars == <<issued, honoured, refused, lost>>
flowVars == <<flows, poller, saves>>

Credential(a, r) == [access |-> a, refresh |-> r, fresh |-> TRUE]

Idle(at) == [at |-> at, force |-> FALSE, has |-> NoCredential, next |-> NoCredential, tries |-> 0]

(* A request ends, with an answer or an error. *)
Ends(c, at) == caller' = [caller EXCEPT ![c] = Idle(at)]

(* The requests that take part, and no others, are made. *)
OAuthInit(parties) ==
  /\ credential = Credential(1, 1)
  /\ refreshMu = {} /\ invalidated = FALSE
  /\ caller = [c \in Callers |-> Idle(IF c \in parties THEN "start" ELSE "done")]
  /\ flows = [f \in Flows |-> "new"] 
  /\ poller = [p \in Pollers |-> [at |-> IF p \in parties THEN "idle" ELSE "done", flow |-> 0]]
  /\ issued = 1 /\ honoured = {1} /\ refused = {} /\ lost = {}
  /\ saves = [f \in Flows |-> 0] /\ deleted = {}

-----------------------------------------------------------------------------
(* Time, and (once in this model) the server, make tokens useless. *)
Expire ==
  /\ credential # NoCredential /\ credential.fresh
  /\ credential' = [credential EXCEPT !.fresh = FALSE]
  /\ UNCHANGED <<refreshMu, invalidated, caller, flowVars, tokenVars, deleted>>

Revoke ==
  /\ refused = {} /\ refused' = 1 .. issued
  /\ UNCHANGED <<credential, refreshMu, invalidated, caller, flowVars,
                 issued, honoured, lost, deleted>>

(* The provider asks its source, which takes and clears its flag.  A set   *)
(* flag makes the manager refresh a credential that has not expired.       *)
AskSource(c) ==
  /\ caller[c].at = "start"
  /\ invalidated' = FALSE
  /\ caller' = [caller EXCEPT ![c].at = "load", ![c].force = invalidated]
  /\ UNCHANGED <<credential, refreshMu, flowVars, tokenVars, deleted>>

LoadCredential(c) ==
  /\ caller[c].at = "load"
  /\ IF credential = NoCredential THEN Ends(c, "failed")
     ELSE caller' = [caller EXCEPT ![c].has = credential,
            ![c].at = IF credential.fresh /\ ~caller[c].force THEN "send" ELSE "refresh"]
  /\ UNCHANGED <<credential, refreshMu, invalidated, flowVars, tokenVars, deleted>>

(* Mutant: what the caller loaded before it waited for the lock is refreshed. *)
RefreshingStale(c) == caller[c].has

(* refreshCredential reads the credential again under the lock. *)
Refreshing(c) == credential

(* Someone has replaced the credential since the caller loaded it. *)
AlreadyRefreshed(c) ==
  Refreshing(c).fresh /\ Refreshing(c).access # caller[c].has.access

(* refreshCredential up to its HTTP request; from there it holds the lock. *)
RefreshCredential(c) ==
  LET current == Refreshing(c)
  IN  /\ caller[c].at = "refresh" /\ refreshMu = {}
      /\ IF current # NoCredential /\ AlreadyRefreshed(c)
         THEN /\ caller' = [caller EXCEPT ![c].has = current, ![c].at = "send"]
              /\ UNCHANGED refreshMu
         ELSE IF current # NoCredential /\ current.refresh # 0
         THEN /\ caller' = [caller EXCEPT ![c].has = current, ![c].at = "asked"]
              /\ refreshMu' = {c}
         ELSE Ends(c, "failed") /\ UNCHANGED refreshMu
      /\ UNCHANGED <<credential, invalidated, flowVars, tokenVars, deleted>>

(* The server exchanges the token.  It may let the refresh token stand, in *)
(* which case the answer carries none and the old one is kept.             *)
Exchange(c) ==
  LET r == caller[c].has.refresh
  IN  /\ caller[c].at = "asked" /\ r \in honoured /\ issued < MaxTokens
      /\ issued' = issued + 1
      /\ \E rotate \in BOOLEAN :
           /\ honoured' = IF rotate THEN (honoured \ {r}) \cup {issued'} ELSE honoured
           /\ caller' = [caller EXCEPT ![c].at = "answered",
                ![c].next = Credential(issued', IF rotate THEN issued' ELSE r)]
      /\ UNCHANGED <<credential, refreshMu, invalidated, flowVars, refused, lost, deleted>>

(* The server refuses, or takes the token and its answer does not arrive. *)
RefreshFails(c) ==
  LET r == caller[c].has.refresh
  IN  /\ caller[c].at = "asked"
      /\ \/ r \notin honoured /\ UNCHANGED <<honoured, lost>>
         \/ Cardinality(lost) < MaxLost /\ lost' = lost \cup {r} /\ honoured' = honoured \ {r}
         \/ issued = MaxTokens /\ UNCHANGED <<honoured, lost>>
      /\ refreshMu' = {} /\ Ends(c, "failed")
      /\ UNCHANGED <<credential, invalidated, flowVars, issued, refused, deleted>>

(* Mutant: the lock is kept after the refresh. *)
SaveRefreshedHolds(c) ==
  /\ caller[c].at = "answered"
  /\ credential' = caller[c].next
  /\ caller' = [caller EXCEPT ![c].has = caller[c].next,
                        ![c].next = NoCredential, ![c].at = "send"]
  /\ UNCHANGED <<refreshMu, invalidated, flowVars, tokenVars, deleted>>

(* Store.Save writes the answer over whatever the file holds now. *)
SaveRefreshed(c) ==
  /\ caller[c].at = "answered"
  /\ credential' = caller[c].next /\ refreshMu' = {}
  /\ caller' = [caller EXCEPT ![c].has = caller[c].next,
                        ![c].next = NoCredential, ![c].at = "send"]
  /\ UNCHANGED <<invalidated, flowVars, tokenVars, deleted>>

(* The file cannot be written: the answer is lost with its new tokens. *)
SaveFails(c) ==
  /\ caller[c].at = "answered" /\ Cardinality(lost) < MaxLost
  /\ lost' = lost \cup {caller[c].has.refresh}
  /\ refreshMu' = {} /\ Ends(c, "failed")
  /\ UNCHANGED <<credential, invalidated, flowVars, issued, honoured, refused, deleted>>

(* The request is sent; a refusal invalidates the source and, the first    *)
(* time, the request starts over.                                          *)
SendRequest(c) ==
  /\ caller[c].at = "send"
  /\ IF caller[c].has.access \notin refused THEN Ends(c, "done") /\ UNCHANGED invalidated
     ELSE IF caller[c].tries = 0
     THEN /\ invalidated' = TRUE
          /\ caller' = [caller EXCEPT ![c] = [Idle("start") EXCEPT !.tries = 1]]
     ELSE Ends(c, "failed") /\ UNCHANGED invalidated
  /\ UNCHANGED <<credential, refreshMu, flowVars, tokenVars, deleted>>

-----------------------------------------------------------------------------
(* The admin interface connects and deletes the account. *)
StartFlow(f, kind) ==
  /\ flows[f] = "new" /\ flows' = [flows EXCEPT ![f] = kind]
  /\ UNCHANGED <<credential, refreshMu, invalidated, caller, poller, saves, tokenVars, deleted>>

Open(f) == flows[f] \in {"claude", "codex"}
Without(f) == [flows EXCEPT ![f] = "gone"]
PollerAt(p, at, f) == poller' = [poller EXCEPT ![p] = [at |-> at, flow |-> f]]

(* cleanupLocked: an expired flow is gone for whoever looks next. *)
FlowExpires(f) ==
  /\ Open(f) /\ flows' = Without(f)
  /\ UNCHANGED <<credential, refreshMu, invalidated, caller, poller, saves, tokenVars, deleted>>

(* PollCodexDeviceFlow looks the flow up and asks the server. *)
PollCodexDeviceFlow(p, f) ==
  /\ poller[p].at = "idle" /\ flows[f] = "codex"
  /\ PollerAt(p, "asking", f)
  /\ UNCHANGED <<credential, refreshMu, invalidated, caller, flows, saves, tokenVars, deleted>>

(* Mutant: the flow found before the request to the server is trusted. *)
StillOpenAlways(f) == TRUE

(* The flow is still the one the poller found. *)
StillOpen(f) == Open(f)

(* Not granted yet: pending.  Granted: the first to come back takes it. *)
PollAnswered(p) ==
  /\ poller[p].at = "asking"
  /\ \/ PollerAt(p, "idle", 0) /\ UNCHANGED flows
     \/ /\ StillOpen(poller[p].flow)
        /\ flows' = Without(poller[p].flow) /\ PollerAt(p, "exchange", poller[p].flow)
  /\ UNCHANGED <<credential, refreshMu, invalidated, caller, saves, tokenVars, deleted>>

(* CompleteClaudeFlow takes the flow first; of another kind, it is lost. *)
CompleteClaudeFlow(p, f) ==
  /\ poller[p].at = "idle" /\ Open(f)
  /\ flows' = Without(f)
  /\ IF flows[f] = "claude" THEN PollerAt(p, "exchange", f) ELSE UNCHANGED poller
  /\ UNCHANGED <<credential, refreshMu, invalidated, caller, saves, tokenVars, deleted>>

(* The code is exchanged and the new credential saved, or the exchange fails. *)
SaveGranted(p) ==
  /\ poller[p].at = "exchange"
  /\ PollerAt(p, "idle", 0)
  /\ \/ UNCHANGED <<credential, issued, honoured, saves>>
     \/ /\ issued < MaxTokens /\ issued' = issued + 1
        /\ honoured' = honoured \cup {issued'}
        /\ \E r \in {issued', 0} : credential' = Credential(issued', r)
        /\ saves' = [saves EXCEPT ![poller[p].flow] = @ + 1]
  /\ UNCHANGED <<refreshMu, invalidated, caller, flows, refused, lost, deleted>>

(* handleOAuthCredentialDelete, once no outbound refers to the credential. *)
DeleteCredential ==
  /\ credential # NoCredential
  /\ credential' = NoCredential /\ deleted' = refreshMu
  /\ UNCHANGED <<refreshMu, invalidated, caller, flowVars, tokenVars>>

-----------------------------------------------------------------------------
(* A request on its way to a credential; then it is sent with it. *)
CredentialStep(c) ==
  \/ AskSource(c) \/ LoadCredential(c) \/ RefreshCredential(c) \/ Exchange(c)
  \/ RefreshFails(c) \/ SaveRefreshed(c) \/ SaveFails(c)

CallerStep(c) == CredentialStep(c) \/ SendRequest(c)

OAuthNext ==
  \/ Expire \/ Revoke \/ DeleteCredential
  \/ \E c \in Callers : CallerStep(c)
  \/ \E f \in Flows : \/ FlowExpires(f)
                      \/ \E kind \in {"claude", "codex"} : StartFlow(f, kind)
                      \/ \E p \in Pollers : PollCodexDeviceFlow(p, f) \/ CompleteClaudeFlow(p, f)
  \/ \E p \in Pollers : PollAnswered(p) \/ SaveGranted(p)

-----------------------------------------------------------------------------
(* Requests that find the credential expired at the same time, an          *)
(* invalidation, a reconnect and a delete never make the manager present a *)
(* refresh token that the server has already taken, except one whose       *)
(* answer was lost (manager.go refreshCredential).                         *)
SpentOnlyIfLost ==
  \A c \in Callers : caller[c].at = "asked" => caller[c].has.refresh \in honoured \cup lost

(* A flow gives one credential at most, however many requests poll or      *)
(* complete it at the same time (manager.go PollCodexDeviceFlow,           *)
(* CompleteClaudeFlow).                                                    *)
FlowGivesOne == \A f \in Flows : saves[f] <= 1

(* A deleted credential comes back only when the account is connected      *)
(* again, or when a refresh was already under way as it was deleted        *)
(* (manager.go refreshCredential saves what it loaded before).             *)
DeletedStaysDeleted ==
  [][credential = NoCredential /\ credential' # NoCredential
       => \/ \E p \in Pollers : poller[p].at = "exchange" /\ poller'[p].at = "idle"
          \/ \E c \in deleted : caller[c].at = "answered" /\ caller'[c].at = "send"]_oauthVars

(* A request that wants the credential gets it or an error, whoever holds  *)
(* the refresh lock, however that one's refresh ends, and even if another  *)
(* request waits for an upstream that never answers (manager.go            *)
(* refreshCredential; the lock is not held while a request is sent).       *)
CredentialInTheEnd ==
  \A c \in Callers : caller[c].at = "start" ~> caller[c].at \in {"send", "failed"}
(* What can be used once is used once: a refresh token, unless the answer  *)
(* to its use was lost, and the grant of a flow, however many requests     *)
(* hold the one or poll the other (manager.go refreshCredential,           *)
(* PollCodexDeviceFlow, CompleteClaudeFlow).                               *)
UsedOnce == SpentOnlyIfLost /\ FlowGivesOne
=============================================================================
