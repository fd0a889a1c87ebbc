------------------------------ MODULE ApiKeys -------------------------------
(***************************************************************************)
(* The OpenAI-compatible client's API keys (provider/openai_chat.go):      *)
(* calls run side by side and share only the index of the key to start     *)
(* from, which each reads once and sets after every answer, under a lock   *)
(* it does not hold in between.                                            *)
(***************************************************************************)
EXTENDS Integers, Sequences

CONSTANTS KeyCount,    \* keys of the outbound, numbered from 0
          KeyCalls     \* calls under way at once

ASSUME KeyCountAssumption == KeyCount \in Nat \ {0}

VARIABLES nextAPIKeyIx, \* the key the next call starts with
          keyCall       \* per call, how far it is; tried lists the keys of this
                        \* round, refused those that refused in the first

keyVars == <<nextAPIKeyIx, keyCall>>

Keys == 0 .. KeyCount - 1
NotCalled == [at |-> "new", streaming |-> FALSE, round |-> 1, start |-> 0, offset |-> 0,
              tried |-> << >>, refused |-> {}, result |-> ""]

KeysInit == nextAPIKeyIx = 0 /\ keyCall = [c \in KeyCalls |-> NotCalled]

-----------------------------------------------------------------------------
(* What comes of a request: it cannot be sent, or not in time, a status,   *)
(* a body that cannot be read as JSON, an answer that says nothing.  A     *)
(* stream tells them apart in another order, to the same end.              *)
Outcomes == {"unsent", "late", "429", "500", "401", "400", "garbled", "empty", "answer"}

NewTransientError(outcome) == IF outcome = "late" THEN "timeout" ELSE "retryable"

completionWithAPIKey(outcome) ==
  CASE outcome \in {"unsent", "late", "garbled"} -> NewTransientError(outcome)
    [] outcome = "429" -> "quota_exceeded"
    [] outcome = "500" -> "upstream_server_error"
    [] outcome = "401" -> "auth_failed"
    [] outcome \in {"400", "empty"} -> "fatal"
    [] OTHER -> "ok"

streamWithAPIKey(outcome) == completionWithAPIKey(outcome)

(* The status the client gets.                                             *)
gatewayError(kind) ==
  CASE kind = "quota_exceeded" -> 429
    [] kind = "model_unavailable" -> 404
    [] kind \in {"retryable", "timeout", "upstream_server_error", "auth_failed", "capability_unsupported", "fatal"} -> 502
    [] OTHER -> 500

-----------------------------------------------------------------------------
(* Mutant: the index is read again for every attempt.                      *)
keyIxRead(c) == nextAPIKeyIx
keyIx(c) == (keyCall[c].start + keyCall[c].offset) % KeyCount

(* ChatCompletion, StreamCompletion: currentAPIKeyIndex.                   *)
BeginCall(c) ==
  /\ keyCall[c].at = "new"
  /\ \E streaming \in BOOLEAN :
       keyCall' = [keyCall EXCEPT ![c] = [@ EXCEPT !.at = "try", !.streaming = streaming, !.start = nextAPIKeyIx]]
  /\ UNCHANGED nextAPIKeyIx

(* A stream that fails with every key, or for another reason than quota,   *)
(* is asked for again in one piece; if that fails too the stream's error   *)
(* is the one reported.                                                    *)
FailsWith(call, kind) ==
  CASE ~call.streaming -> [call EXCEPT !.at = "done", !.result = kind]
    [] call.streaming /\ call.round = 1 -> [call EXCEPT !.at = "again", !.result = kind]
    [] OTHER -> [call EXCEPT !.at = "done"]

Attempt(c) ==
  /\ keyCall[c].at = "try"
  /\ \E outcome \in Outcomes :
       LET call == keyCall[c]
           kind == IF call.streaming /\ call.round = 1 THEN streamWithAPIKey(outcome) ELSE completionWithAPIKey(outcome)
           tried == [call EXCEPT !.tried = Append(@, keyIx(c)),
                                 !.refused = IF call.round = 1 /\ kind = "quota_exceeded" THEN @ \cup {keyIx(c)} ELSE @]
       IN  keyCall' = [keyCall EXCEPT ![c] =
             CASE kind = "ok" -> [tried EXCEPT !.at = "mark"]
               [] kind = "quota_exceeded" /\ call.offset < KeyCount - 1 -> [tried EXCEPT !.at = "advance"]
               [] OTHER -> FailsWith(tried, kind)]
  /\ UNCHANGED nextAPIKeyIx

markNextAPIKeyAfter(c) ==
  /\ keyCall[c].at = "mark"
  /\ nextAPIKeyIx' = (keyIx(c) + 1) % KeyCount
  /\ keyCall' = [keyCall EXCEPT ![c] = [@ EXCEPT !.at = "done", !.result = "ok"]]

setNextAPIKey(c) ==
  /\ keyCall[c].at = "advance"
  /\ nextAPIKeyIx' = (keyIx(c) + 1) % KeyCount
  /\ keyCall' = [keyCall EXCEPT ![c] = [@ EXCEPT !.at = "try", !.offset = keyCall[c].offset + 1]]

AskAgain(c) ==
  /\ keyCall[c].at = "again"
  /\ keyCall' = [keyCall EXCEPT ![c] = [@ EXCEPT !.at = "try", !.round = 2, !.start = nextAPIKeyIx, !.offset = 0, !.tried = << >>]]
  /\ UNCHANGED nextAPIKeyIx

KeysNext ==
  \E c \in KeyCalls : BeginCall(c) \/ Attempt(c) \/ markNextAPIKeyAfter(c) \/ setNextAPIKey(c) \/ AskAgain(c)

-----------------------------------------------------------------------------
(* Whatever other calls do to the shared index, a call tries no key twice  *)
(* in a round; it reports 429 only once every key has refused it, and no   *)
(* failure of the upstream as the gateway's own, 500 (ChatCompletion,      *)
(* StreamCompletion, gatewayError).                                        *)
QuotaOnlyIfAllSpent ==
  \A c \in KeyCalls :
    /\ \A i, j \in DOMAIN keyCall[c].tried : i # j => keyCall[c].tried[i] # keyCall[c].tried[j]
    /\ keyCall[c].at = "done" /\ keyCall[c].result # "ok" =>
         /\ gatewayError(keyCall[c].result) # 500
         /\ gatewayError(keyCall[c].result) = 429 => keyCall[c].refused = Keys
=============================================================================
