------------------------------ MODULE Provider ------------------------------
(***************************************************************************)
(* The vocabulary of internal/provider shared by the trackers and the      *)
(* dispatcher: the outbounds, the kinds of error a provider call can end   *)
(* with, and the two rules that read a kind (errors.go) or an error        *)
(* (dispatcher.go).  An error is a record: its kind, and whether it carries *)
(* HTTP metadata (a status code, a request id or a retry-after).           *)
(***************************************************************************)
EXTENDS Naturals, Sequences

CONSTANT Outbounds      \* names of the configured, enabled outbounds

ErrorKinds ==
  { "unknown", "retryable", "timeout", "quota_exceeded", "upstream_server_error",
    "auth_failed", "capability_unsupported", "model_unavailable", "fatal" }

Errors == [kind : ErrorKinds, http : BOOLEAN]

(* What ChatCompletion and StreamCompletion fail with, and what a stream's *)
(* error event carries.  model_unavailable is produced by the dispatcher   *)
(* itself, never by a provider.                                            *)
ProviderErrors == [kind : ErrorKinds \ {"model_unavailable"}, http : BOOLEAN]

NoError == [kind |-> "none", http |-> FALSE]        \* lastErr == nil

IsRecoverable(kind) ==
  kind \in { "retryable", "timeout", "quota_exceeded", "upstream_server_error",
             "model_unavailable" }

(* Every step the router plans has OnError = FallbackOnRetryable, so only  *)
(* that branch of the switch is reached.                                   *)
FallbackAllowed(kind, isLast) == ~isLast /\ IsRecoverable(kind)

PreferredErrorPriority(e) ==
  CASE e.kind \in {"quota_exceeded", "auth_failed"} -> IF e.http THEN 5 ELSE 4
    [] e.kind \in {"fatal", "capability_unsupported"} -> 3
    [] e.kind \in {"timeout", "upstream_server_error", "retryable"} -> 2
    [] OTHER -> 1

(* Mutant: among equals the later error wins.                              *)
SelectLatestError(current, candidate) ==
  IF current = NoError \/ PreferredErrorPriority(candidate) >= PreferredErrorPriority(current)
    THEN candidate
    ELSE current

SelectPreferredError(current, candidate) ==
  IF current = NoError \/ PreferredErrorPriority(candidate) > PreferredErrorPriority(current)
    THEN candidate
    ELSE current
=============================================================================
