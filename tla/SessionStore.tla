---------------------------- MODULE SessionStore ----------------------------
(***************************************************************************)
(* internal/sessions/state.go and store.go: what each call of the session  *)
(* store makes of one session.  A session is NoSession or a record:        *)
(*   status    Status                                                      *)
(*   since     how long ago LastSeenAt was set, for a stopped session, and *)
(*             statusObservedAt, for a transient one: the only statuses    *)
(*             for which the code looks at those times                     *)
(*   leaseIn   how far off LeaseExpiresAt is (0 when it has passed)        *)
(*   capable   HeartbeatCapability is heartbeat_v1                         *)
(*   recovery  RecoveryPending                                             *)
(***************************************************************************)
EXTENDS Integers

CONSTANTS LeaseTTL,        \* DefaultLeaseTTL
          TransientTTL,    \* DefaultTransientTTL
          Retention,       \* DefaultStoppedRetention
          NoSession

ASSUME SessionAssumption ==
  /\ LeaseTTL \in Nat \ {0} /\ TransientTTL \in Nat \ {0} /\ Retention \in Nat

Transient == {"tool_running", "compacting"}
Status == {"unknown", "running", "waiting_permission", "idle", "stopped"} \cup Transient

Ages == 0 .. (IF Retention >= TransientTTL THEN Retention + 1 ELSE TransientTTL)

Session == [status : Status, since : Ages, leaseIn : 0 .. LeaseTTL,
            capable : BOOLEAN, recovery : BOOLEAN]

(* Status and the time it is dated from change together.                   *)
WithStatus(s, status) == [s EXCEPT !.status = status, !.since = 0]

(***************************************************************************)
(* StatusForHookEvent.  An event is <<EventName, what its payload says>>.  *)
(***************************************************************************)
StatusForHookEvent(event, current) ==
  CASE current = "stopped" -> "stopped"
    [] OTHER ->
       CASE event[1] \in {"SessionStart", "Stop"} -> "idle"
         [] event[1] \in {"UserPromptSubmit", "PostToolUse"} -> "running"
         [] event[1] = "PreToolUse" ->
              IF event[2] = "permission" THEN "waiting_permission" ELSE "tool_running"
         [] event[1] = "Notification" ->
              IF event[2] = "permission" THEN "waiting_permission"
              ELSE IF event[2] = "idle" THEN "idle" ELSE current
         [] event[1] = "PreCompact" -> "compacting"
         [] event[1] = "SessionEnd" -> "stopped"
         [] OTHER -> current

Stopped(s) == s # NoSession /\ s.status = "stopped"

Renewed(s) == [s EXCEPT !.leaseIn = LeaseTTL]

(* Mutant: a registration brings a stopped session back.                   *)
RegisterRevives(s, capable) ==
  IF s = NoSession \/ Stopped(s)
  THEN [status |-> "unknown", since |-> 0, leaseIn |-> IF capable THEN LeaseTTL ELSE 0,
        capable |-> capable, recovery |-> FALSE]
  ELSE IF capable \/ s.capable
       THEN [Renewed(s) EXCEPT !.capable = TRUE, !.recovery = FALSE]
       ELSE s

(***************************************************************************)
(* Register: a new session is unknown; an existing one keeps its status;   *)
(* the capability, once declared, is kept, renews the lease and ends the   *)
(* recovery; a stopped session is left alone.                              *)
(***************************************************************************)
Register(s, capable) ==
  CASE s = NoSession ->
         [status |-> "unknown", since |-> 0, leaseIn |-> IF capable THEN LeaseTTL ELSE 0,
          capable |-> capable, recovery |-> FALSE]
    [] Stopped(s) -> s
    [] OTHER -> IF capable \/ s.capable
                THEN [Renewed(s) EXCEPT !.capable = TRUE, !.recovery = FALSE]
                ELSE s

(* ApplyHookEvent: the status and its time, and nothing else: the lease    *)
(* and the recovery are the heartbeat's business.                          *)
ApplyHookEvent(s, event) ==
  IF s = NoSession \/ Stopped(s) THEN s
  ELSE WithStatus(s, StatusForHookEvent(event, s.status))

MarkStopped(s) ==
  IF s = NoSession \/ Stopped(s) THEN s ELSE WithStatus(s, "stopped")

(* Mutant: a heartbeat for a stopped session dates it anew.                *)
HeartbeatTouchesStopped(s) ==
  IF s = NoSession THEN s
  ELSE IF Stopped(s) THEN WithStatus(s, "stopped")
  ELSE IF ~s.capable THEN s
  ELSE IF s.recovery THEN [WithStatus(Renewed(s), "unknown") EXCEPT !.recovery = FALSE]
  ELSE Renewed(s)

(* Heartbeat: renews the lease; the first one after a restart confirms the *)
(* session, whose status is unknown again whatever hooks have said since.  *)
Heartbeat(s) ==
  IF s = NoSession \/ Stopped(s) \/ ~s.capable THEN s
  ELSE IF s.recovery THEN [WithStatus(Renewed(s), "unknown") EXCEPT !.recovery = FALSE]
  ELSE Renewed(s)

(* Mutant: a session waiting to be confirmed is never given up.            *)
SweepSparesRecovering(s) ==
  IF s = NoSession THEN s
  ELSE IF Stopped(s) THEN IF s.since > Retention THEN NoSession ELSE s
  ELSE IF s.capable /\ ~s.recovery /\ s.leaseIn = 0 THEN WithStatus(s, "stopped")
  ELSE IF s.status \in Transient /\ s.since >= TransientTTL THEN WithStatus(s, "unknown")
  ELSE s

(* Sweep, run by the reaper.                                               *)
Sweep(s) ==
  IF s = NoSession THEN s
  ELSE IF Stopped(s) THEN IF s.since > Retention THEN NoSession ELSE s
  ELSE IF s.capable /\ s.leaseIn = 0 THEN WithStatus(s, "stopped")
  ELSE IF s.status \in Transient /\ s.since >= TransientTTL THEN WithStatus(s, "unknown")
  ELSE s

(* Mutant: a restart keeps the lease the snapshot was taken with.          *)
ImportKeepsLease(s) ==
  IF s = NoSession THEN s
  ELSE IF Stopped(s) THEN IF s.since > Retention THEN NoSession ELSE s
  ELSE IF s.capable THEN [WithStatus(s, "unknown") EXCEPT !.recovery = TRUE]
  ELSE [WithStatus(s, "stopped") EXCEPT !.recovery = FALSE]

(* importSnapshot: what a restart makes of a session of latest.json.       *)
ImportSnapshot(s) ==
  IF s = NoSession THEN s
  ELSE IF Stopped(s) THEN IF s.since > Retention THEN NoSession ELSE s
  ELSE IF s.capable THEN [WithStatus(Renewed(s), "unknown") EXCEPT !.recovery = TRUE]
  ELSE [WithStatus(s, "stopped") EXCEPT !.recovery = FALSE]

(* LatestActive: the session a request without a session header counts on. *)
LatestActive(s) == s # NoSession /\ s.status # "stopped" /\ ~s.recovery

(* A unit of time passes.                                                  *)
Older(s) ==
  IF s = NoSession THEN s
  ELSE [s EXCEPT
          !.since = IF s.status \in Transient \cup {"stopped"} /\ s.since + 1 \in Ages
                    THEN s.since + 1 ELSE s.since,
          !.leaseIn = IF s.leaseIn > 0 THEN s.leaseIn - 1 ELSE 0]
=============================================================================
