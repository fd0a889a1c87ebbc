---------------------------- MODULE HealthTracker ----------------------------
(***************************************************************************)
(* internal/provider/health.go: consecutive failures per outbound, the     *)
(* degraded state, and the probe that lets one request through to test     *)
(* recovery.  Each operation is one critical section of HealthTracker.mu,  *)
(* so each is one action.  Deadlines are kept as the number of ticks still *)
(* to go; the code only ever compares them with the current time.          *)
(***************************************************************************)
EXTENDS Provider

CONSTANTS FailureThreshold,     \* DefaultHealthFailureThreshold
          HealthProbeInterval   \* probeInterval, in ticks

ASSUME HealthAssumption ==
  /\ FailureThreshold \in Nat \ {0}
  /\ HealthProbeInterval \in Nat \ {0}

VARIABLES failures,       \* consecutiveFailures, saturated at the threshold
          healthProbeIn,  \* ticks until nextProbeAt; 0 when it is zero or past
          healthProbing   \* probeInFlight

healthVars == <<failures, healthProbeIn, healthProbing>>

HealthTypeOK ==
  /\ failures \in [Outbounds -> 0..FailureThreshold]
  /\ healthProbeIn \in [Outbounds -> 0..HealthProbeInterval]
  /\ healthProbing \in [Outbounds -> BOOLEAN]

HealthInit ==
  /\ failures = [o \in Outbounds |-> 0]
  /\ healthProbeIn = [o \in Outbounds |-> 0]
  /\ healthProbing = [o \in Outbounds |-> FALSE]

Degraded(o) == failures[o] >= FailureThreshold

(* BeforeAttempt would refuse the outbound.                                *)
HealthBlocks(o) == Degraded(o) /\ (healthProbing[o] \/ healthProbeIn[o] > 0)

(* The three ways out of BeforeAttempt.                                    *)
HealthAllow(o) == ~Degraded(o) /\ UNCHANGED healthVars

HealthProbe(o) ==
  /\ Degraded(o)
  /\ ~healthProbing[o]
  /\ healthProbeIn[o] = 0
  /\ healthProbing' = [healthProbing EXCEPT ![o] = TRUE]
  /\ UNCHANGED <<failures, healthProbeIn>>

(* Mutant: a refused attempt puts the next probe off.                      *)
HealthBlockPutsOff(o) ==
  /\ HealthBlocks(o)
  /\ healthProbeIn' = [healthProbeIn EXCEPT ![o] = HealthProbeInterval]
  /\ UNCHANGED <<failures, healthProbing>>

HealthBlock(o) == HealthBlocks(o) /\ UNCHANGED healthVars

HealthRecordSuccess(o) ==
  /\ failures' = [failures EXCEPT ![o] = 0]
  /\ healthProbeIn' = [healthProbeIn EXCEPT ![o] = 0]
  /\ healthProbing' = [healthProbing EXCEPT ![o] = FALSE]

(* The early return for an unrecoverable kind leaves everything as it is,  *)
(* probeInFlight included.                                                 *)
HealthRecordFailure(o, kind) ==
  IF ~IsRecoverable(kind)
    THEN UNCHANGED healthVars
    ELSE /\ failures' = [failures EXCEPT ![o] = IF @ < FailureThreshold THEN @ + 1 ELSE @]
         /\ healthProbing' = [healthProbing EXCEPT ![o] = FALSE]
         /\ healthProbeIn' = IF failures[o] + 1 >= FailureThreshold
                               THEN [healthProbeIn EXCEPT ![o] = HealthProbeInterval]
                               ELSE healthProbeIn

HealthTick ==
  /\ healthProbeIn' = [o \in Outbounds |-> IF healthProbeIn[o] > 0 THEN healthProbeIn[o] - 1 ELSE 0]
  /\ UNCHANGED <<failures, healthProbing>>
=============================================================================
