---------------------------- MODULE OutboundQuota ----------------------------
(***************************************************************************)
(* The outbound side of internal/quota/tracker.go, as the dispatcher uses  *)
(* it: one requests window per outbound, and the cooldown an upstream 429  *)
(* starts.  Each operation is one critical section of Tracker.mu.  The     *)
(* window's events are kept as their number; that events leave the window  *)
(* as time passes (rolling, fixed or reset_all alike) is WindowExpire.     *)
(***************************************************************************)
EXTENDS Provider

CONSTANTS QuotaSubjects,        \* outbounds with quota enabled: Tracker.subjects
          MaxRequests,          \* max_requests of the window
          Cooldown,             \* cooldown, in ticks
          QuotaProbeInterval    \* probe_interval, in ticks

ASSUME QuotaAssumption ==
  /\ QuotaSubjects \subseteq Outbounds
  /\ MaxRequests \in Nat \ {0}
  /\ Cooldown \in Nat \ {0}
  /\ QuotaProbeInterval \in Nat \ {0}

VARIABLES used,           \* events in the window
          cooldownIn,     \* ticks until cooldownUntil; 0 when it is zero or past
          quotaProbeIn,   \* ticks until nextProbeAt
          quotaProbing    \* probeInFlight

quotaVars == <<used, cooldownIn, quotaProbeIn, quotaProbing>>

QuotaTypeOK ==
  /\ used \in [Outbounds -> Nat]
  /\ cooldownIn \in [Outbounds -> 0..Cooldown]
  /\ quotaProbeIn \in [Outbounds -> 0..QuotaProbeInterval]
  /\ quotaProbing \in [Outbounds -> BOOLEAN]

QuotaInit ==
  /\ used = [o \in Outbounds |-> 0]
  /\ cooldownIn = [o \in Outbounds |-> 0]
  /\ quotaProbeIn = [o \in Outbounds |-> 0]
  /\ quotaProbing = [o \in Outbounds |-> FALSE]

InCooldown(o) == cooldownIn[o] > 0

(* rollover's last statement: an elapsed cooldown takes its probe with it. *)
QuotaRollover(o) ==
  IF InCooldown(o)
    THEN UNCHANGED <<quotaProbeIn, quotaProbing>>
    ELSE /\ quotaProbeIn' = [quotaProbeIn EXCEPT ![o] = 0]
         /\ quotaProbing' = [quotaProbing EXCEPT ![o] = FALSE]

(* The five ways out of beforeAttempt.  An outbound without a subject is   *)
(* let through untracked; a probe is granted before the windows are looked *)
(* at.                                                                     *)
QuotaUntracked(o) == o \notin QuotaSubjects /\ UNCHANGED quotaVars

QuotaAllow(o) ==
  /\ o \in QuotaSubjects
  /\ ~InCooldown(o)
  /\ used[o] < MaxRequests
  /\ QuotaRollover(o)
  /\ UNCHANGED <<used, cooldownIn>>

(* Mutant: a granted probe is not marked as in flight.                     *)
QuotaProbeUnmarked(o) ==
  /\ InCooldown(o) /\ quotaProbeIn[o] = 0 /\ ~quotaProbing[o]
  /\ UNCHANGED quotaVars

QuotaProbe(o) ==
  /\ InCooldown(o)
  /\ quotaProbeIn[o] = 0
  /\ ~quotaProbing[o]
  /\ quotaProbing' = [quotaProbing EXCEPT ![o] = TRUE]
  /\ UNCHANGED <<used, cooldownIn, quotaProbeIn>>

(* Mutant: a refused attempt prolongs the cooldown.                        *)
QuotaBlockProlongs(o) ==
  /\ InCooldown(o)
  /\ quotaProbeIn[o] > 0 \/ quotaProbing[o]
  /\ cooldownIn' = [cooldownIn EXCEPT ![o] = Cooldown]
  /\ UNCHANGED <<used, quotaProbeIn, quotaProbing>>

QuotaBlockCooldown(o) ==
  /\ InCooldown(o)
  /\ quotaProbeIn[o] > 0 \/ quotaProbing[o]
  /\ UNCHANGED quotaVars

QuotaBlockLimited(o) ==
  /\ ~InCooldown(o)
  /\ used[o] >= MaxRequests
  /\ QuotaRollover(o)
  /\ UNCHANGED <<used, cooldownIn>>

QuotaRecordSuccess(o) ==
  IF o \notin QuotaSubjects
    THEN UNCHANGED quotaVars
    ELSE /\ used' = [used EXCEPT ![o] = @ + 1]
         /\ cooldownIn' = [cooldownIn EXCEPT ![o] = 0]
         /\ quotaProbeIn' = [quotaProbeIn EXCEPT ![o] = 0]
         /\ quotaProbing' = [quotaProbing EXCEPT ![o] = FALSE]

QuotaRecordExceeded(o) ==
  IF o \notin QuotaSubjects
    THEN UNCHANGED quotaVars
    ELSE /\ cooldownIn' = [cooldownIn EXCEPT ![o] = Cooldown]
         /\ quotaProbeIn' = [quotaProbeIn EXCEPT ![o] = QuotaProbeInterval]
         /\ quotaProbing' = [quotaProbing EXCEPT ![o] = FALSE]
         /\ UNCHANGED used

QuotaTick ==
  /\ cooldownIn' = [o \in Outbounds |-> IF cooldownIn[o] > 0 THEN cooldownIn[o] - 1 ELSE 0]
  /\ quotaProbeIn' = [o \in Outbounds |-> IF quotaProbeIn[o] > 0 THEN quotaProbeIn[o] - 1 ELSE 0]
  /\ UNCHANGED <<used, quotaProbing>>

WindowExpire(o) ==
  /\ used[o] > 0
  /\ \E n \in 0..(used[o] - 1) : used' = [used EXCEPT ![o] = n]
  /\ UNCHANGED <<cooldownIn, quotaProbeIn, quotaProbing>>
=============================================================================
