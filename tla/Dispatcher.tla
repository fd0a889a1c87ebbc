----------------------------- MODULE Dispatcher -----------------------------
(***************************************************************************)
(* internal/execution/dispatcher.go: concurrent requests walk their        *)
(* execution plans, passing the quota gate and the health gate of each     *)
(* outbound before the provider call, and settle in the trackers and in    *)
(* the accounting store afterwards.                                        *)
(*                                                                         *)
(* A request is a slot of Requests: the goroutines that can be inside      *)
(* Dispatch, DispatchStream or wrapStream at one time.  pc names the next  *)
(* thing that goroutine does to shared state.  Each tracker call is a      *)
(* critical section of its own, so requests interleave between any two.    *)
(***************************************************************************)
EXTENDS HealthTracker, OutboundQuota, FiniteSets

CONSTANTS Requests,       \* request slots: how many requests can be in flight
          Plans,          \* the execution plans Router.Plan can return
          Replies,        \* the errors provider calls and streams can end with
          Cancels         \* whether clients may go away (ctx is cancelled)

Steps == [outbound : Outbounds, unavailable : BOOLEAN]

ASSUME DispatcherAssumption ==
  /\ IsFiniteSet(Requests)
  /\ Plans \subseteq Seq(Steps) \ {<< >>}
  /\ Replies \subseteq ProviderErrors
  /\ Cancels \in BOOLEAN

VARIABLES pc,         \* where the goroutine of the request is
          plan,       \* plan.Steps
          step,       \* index of the current step, from 1
          stream,     \* DispatchStream rather than Dispatch
          cancelled,  \* ctx.Err() != nil
          lastErr,    \* lastErr
          err,        \* the provider error being settled
          recorded,   \* wrapStream's recorded
          ledger,     \* what this request has written so far
          seen        \* history: every error of this request, in order

reqVars == <<pc, plan, step, stream, cancelled, lastErr, err, recorded, ledger, seen>>
vars == <<healthVars, quotaVars, reqVars>>

PCs == { "idle", "step", "health", "call", "okQuota", "okHealth", "okRecord",
         "errHealth", "errQuota", "stream", "streamErrHealth", "streamErrQuota" }

(* Writes of one request: usage records by status, charges to the outbound *)
(* quota, charges of terminal usage to the client quota.                   *)
Entries == {"success", "error", "quota", "client"}
EmptyLedger == [f \in Entries |-> 0]

Outbound(r) == plan[r][step[r]].outbound

TypeOK ==
  /\ HealthTypeOK
  /\ QuotaTypeOK
  /\ pc \in [Requests -> PCs]
  /\ plan \in [Requests -> Seq(Steps)]
  /\ step \in [Requests -> Nat]
  /\ \A r \in Requests : pc[r] # "idle" => step[r] \in 1..Len(plan[r])
  /\ stream \in [Requests -> BOOLEAN]
  /\ cancelled \in [Requests -> BOOLEAN]
  /\ lastErr \in [Requests -> Errors \cup {NoError}]
  /\ err \in [Requests -> Errors \cup {NoError}]
  /\ recorded \in [Requests -> BOOLEAN]
  /\ ledger \in [Requests -> [Entries -> Nat]]
  /\ seen \in [Requests -> Seq(Errors)]

Init ==
  /\ HealthInit
  /\ QuotaInit
  /\ pc = [r \in Requests |-> "idle"]
  /\ plan = [r \in Requests |-> << >>]
  /\ step = [r \in Requests |-> 1]
  /\ stream = [r \in Requests |-> FALSE]
  /\ cancelled = [r \in Requests |-> FALSE]
  /\ lastErr = [r \in Requests |-> NoError]
  /\ err = [r \in Requests |-> NoError]
  /\ recorded = [r \in Requests |-> FALSE]
  /\ ledger = [r \in Requests |-> EmptyLedger]
  /\ seen = [r \in Requests |-> << >>]

-----------------------------------------------------------------------------
Goto(r, label) == pc' = [pc EXCEPT ![r] = label]

Charge(r, entries) ==
  ledger' = [ledger EXCEPT ![r] = [f \in Entries |-> IF f \in entries THEN @[f] + 1 ELSE @[f]]]

(* lastErr = selectPreferredError(lastErr, e)                              *)
Note(r, e) ==
  /\ lastErr' = [lastErr EXCEPT ![r] = SelectPreferredError(@, e)]
  /\ seen' = [seen EXCEPT ![r] = Append(@, e)]

IsLast(r) == step[r] = Len(plan[r])

(* Mutant: the loop does not stop after the last step.                     *)
NextStepRunsOver(r) ==
  Goto(r, "step") /\ step' = [step EXCEPT ![r] = @ + 1] /\ UNCHANGED ledger

(* continue: the next step, or, when the loop ends, the error record of    *)
(* the last step and the return.                                           *)
NextStep(r) ==
  IF IsLast(r)
    THEN Goto(r, "idle") /\ Charge(r, {"error"}) /\ UNCHANGED step
    ELSE Goto(r, "step") /\ step' = [step EXCEPT ![r] = @ + 1] /\ UNCHANGED ledger

(* A step that is skipped without a provider call.                         *)
Skip(r, kind) ==
  /\ Note(r, [kind |-> kind, http |-> FALSE])
  /\ NextStep(r)
  /\ UNCHANGED <<plan, stream, cancelled, err, recorded>>

-----------------------------------------------------------------------------
(* A request enters Dispatch or DispatchStream with the plan the router    *)
(* made for it.                                                            *)
Start(r) ==
  /\ pc[r] = "idle"
  /\ \E p \in Plans : plan' = [plan EXCEPT ![r] = p]
  /\ \E s \in BOOLEAN : stream' = [stream EXCEPT ![r] = s]
  /\ step' = [step EXCEPT ![r] = 1]
  /\ cancelled' = [cancelled EXCEPT ![r] = FALSE]
  /\ lastErr' = [lastErr EXCEPT ![r] = NoError]
  /\ err' = [err EXCEPT ![r] = NoError]
  /\ recorded' = [recorded EXCEPT ![r] = FALSE]
  /\ ledger' = [ledger EXCEPT ![r] = EmptyLedger]
  /\ seen' = [seen EXCEPT ![r] = << >>]
  /\ Goto(r, "step")
  /\ UNCHANGED <<healthVars, quotaVars>>

SkipUnavailable(r) ==
  /\ pc[r] = "step"
  /\ plan[r][step[r]].unavailable
  /\ Skip(r, "model_unavailable")
  /\ UNCHANGED <<healthVars, quotaVars>>

PassQuotaGate(r) ==
  /\ pc[r] = "step"
  /\ ~plan[r][step[r]].unavailable
  /\ \/ QuotaUntracked(Outbound(r))
     \/ QuotaAllow(Outbound(r))
     \/ QuotaProbe(Outbound(r))
  /\ Goto(r, "health")
  /\ UNCHANGED <<healthVars, plan, step, stream, cancelled, lastErr, err, recorded, ledger, seen>>

StopAtQuotaGate(r) ==
  /\ pc[r] = "step"
  /\ ~plan[r][step[r]].unavailable
  /\ QuotaBlockCooldown(Outbound(r)) \/ QuotaBlockLimited(Outbound(r))
  /\ Skip(r, "quota_exceeded")
  /\ UNCHANGED healthVars

PassHealthGate(r) ==
  /\ pc[r] = "health"
  /\ HealthAllow(Outbound(r)) \/ HealthProbe(Outbound(r))
  /\ Goto(r, "call")
  /\ UNCHANGED <<quotaVars, plan, step, stream, cancelled, lastErr, err, recorded, ledger, seen>>

(* The quota probe that beforeAttempt may just have granted is not given   *)
(* back.                                                                   *)
StopAtHealthGate(r) ==
  /\ pc[r] = "health"
  /\ HealthBlock(Outbound(r))
  /\ Skip(r, "retryable")
  /\ UNCHANGED quotaVars

CallSucceeds(r) ==
  /\ pc[r] = "call"
  /\ Goto(r, IF stream[r] THEN "stream" ELSE "okQuota")
  /\ UNCHANGED <<healthVars, quotaVars, plan, step, stream, cancelled, lastErr, err, recorded, ledger, seen>>

CallFails(r) ==
  /\ pc[r] = "call"
  /\ \E e \in Replies : Note(r, e) /\ err' = [err EXCEPT ![r] = e]
  /\ Goto(r, "errHealth")
  /\ UNCHANGED <<healthVars, quotaVars, plan, step, stream, cancelled, recorded, ledger>>

-----------------------------------------------------------------------------
(* recordProviderError, in Dispatch and DispatchStream, then the fallback  *)
(* decision.                                                               *)
ReportFailureToHealth(r) ==
  /\ pc[r] = "errHealth"
  /\ HealthRecordFailure(Outbound(r), err[r].kind)
  /\ Goto(r, "errQuota")
  /\ UNCHANGED <<quotaVars, plan, step, stream, cancelled, lastErr, err, recorded, ledger, seen>>

ReportFailureToQuota(r) ==
  /\ pc[r] = "errQuota"
  /\ IF err[r].kind = "quota_exceeded" THEN QuotaRecordExceeded(Outbound(r)) ELSE UNCHANGED quotaVars
  /\ IF FallbackAllowed(err[r].kind, IsLast(r))
       THEN NextStep(r)
       ELSE Goto(r, "idle") /\ Charge(r, {"error"}) /\ UNCHANGED step
  /\ UNCHANGED <<healthVars, plan, stream, cancelled, lastErr, err, recorded, seen>>

(* recordSuccess, record and recordClientTerminalSuccess, in Dispatch and  *)
(* at the normal close of a stream.                                        *)
ReportSuccessToQuota(r) ==
  /\ pc[r] = "okQuota"
  /\ QuotaRecordSuccess(Outbound(r))
  /\ Charge(r, {"quota"})
  /\ Goto(r, "okHealth")
  /\ UNCHANGED <<healthVars, plan, step, stream, cancelled, lastErr, err, recorded, seen>>

ReportSuccessToHealth(r) ==
  /\ pc[r] = "okHealth"
  /\ HealthRecordSuccess(Outbound(r))
  /\ Goto(r, "okRecord")
  /\ UNCHANGED <<quotaVars, plan, step, stream, cancelled, lastErr, err, recorded, ledger, seen>>

RecordSuccess(r) ==
  /\ pc[r] = "okRecord"
  /\ Charge(r, {"success", "client"})
  /\ Goto(r, "idle")
  /\ UNCHANGED <<healthVars, quotaVars, plan, step, stream, cancelled, lastErr, err, recorded, seen>>

-----------------------------------------------------------------------------
(* wrapStream.  Events that carry no error only pass through.              *)
StreamErrorEvent(r) ==
  /\ pc[r] = "stream"
  /\ ~recorded[r]
  /\ \E e \in Replies : err' = [err EXCEPT ![r] = e]
  /\ Goto(r, "streamErrHealth")
  /\ UNCHANGED <<healthVars, quotaVars, plan, step, stream, cancelled, lastErr, recorded, ledger, seen>>

ReportStreamErrorToHealth(r) ==
  /\ pc[r] = "streamErrHealth"
  /\ HealthRecordFailure(Outbound(r), err[r].kind)
  /\ Goto(r, "streamErrQuota")
  /\ UNCHANGED <<quotaVars, plan, step, stream, cancelled, lastErr, err, recorded, ledger, seen>>

ReportStreamErrorToQuota(r) ==
  /\ pc[r] = "streamErrQuota"
  /\ IF err[r].kind = "quota_exceeded" THEN QuotaRecordExceeded(Outbound(r)) ELSE UNCHANGED quotaVars
  /\ Charge(r, {"error"})
  /\ recorded' = [recorded EXCEPT ![r] = TRUE]
  /\ Goto(r, "stream")
  /\ UNCHANGED <<healthVars, plan, step, stream, cancelled, lastErr, err, seen>>

(* Mutant: every close of a stream is a success.                           *)
StreamClosesWell(r) ==
  /\ pc[r] = "stream"
  /\ ~cancelled[r]
  /\ Goto(r, "okQuota")
  /\ UNCHANGED <<healthVars, quotaVars, plan, step, stream, cancelled, lastErr, err, recorded, ledger, seen>>

StreamCloses(r) ==
  /\ pc[r] = "stream"
  /\ ~cancelled[r]
  /\ Goto(r, IF recorded[r] THEN "idle" ELSE "okQuota")
  /\ UNCHANGED <<healthVars, quotaVars, plan, step, stream, cancelled, lastErr, err, recorded, ledger, seen>>

(* The three returns on a cancelled context: nothing is recorded.          *)
StreamAborts(r) ==
  /\ pc[r] = "stream"
  /\ cancelled[r]
  /\ Goto(r, "idle")
  /\ UNCHANGED <<healthVars, quotaVars, plan, step, stream, cancelled, lastErr, err, recorded, ledger, seen>>

(* The client disconnects, or the handler stops writing and returns; a     *)
(* provider call in flight may still end either way.                       *)
ClientCancels(r) ==
  /\ Cancels
  /\ pc[r] # "idle"
  /\ ~cancelled[r]
  /\ cancelled' = [cancelled EXCEPT ![r] = TRUE]
  /\ UNCHANGED <<healthVars, quotaVars, pc, plan, step, stream, lastErr, err, recorded, ledger, seen>>

Tick ==
  /\ \E o \in Outbounds : healthProbeIn[o] > 0 \/ cooldownIn[o] > 0 \/ quotaProbeIn[o] > 0
  /\ HealthTick
  /\ QuotaTick
  /\ UNCHANGED reqVars

Expire(o) == WindowExpire(o) /\ UNCHANGED <<healthVars, reqVars>>

-----------------------------------------------------------------------------
(* What the goroutine of r does on its own once it has started.            *)
Proceed(r) ==
  \/ SkipUnavailable(r)
  \/ PassQuotaGate(r)
  \/ StopAtQuotaGate(r)
  \/ PassHealthGate(r)
  \/ StopAtHealthGate(r)
  \/ CallSucceeds(r)
  \/ CallFails(r)
  \/ ReportFailureToHealth(r)
  \/ ReportFailureToQuota(r)
  \/ ReportSuccessToQuota(r)
  \/ ReportSuccessToHealth(r)
  \/ RecordSuccess(r)
  \/ StreamErrorEvent(r)
  \/ ReportStreamErrorToHealth(r)
  \/ ReportStreamErrorToQuota(r)
  \/ StreamCloses(r)
  \/ StreamAborts(r)

Next ==
  \/ \E r \in Requests : Start(r) \/ Proceed(r) \/ ClientCancels(r)
  \/ \E o \in Outbounds : Expire(o)
  \/ Tick

Spec == Init /\ [][Next]_vars

(* Goroutines that can run do run; upstreams answer or drop the connection *)
(* in the end; the clock advances, and takes events out of the windows.    *)
(* Nothing is assumed of the clients: no request has to arrive, and none   *)
(* has to be cancelled.                                                    *)
FairSpec ==
  /\ Spec
  /\ \A r \in Requests : WF_vars(Proceed(r))
  /\ \A o \in Outbounds : WF_vars(Expire(o))
  /\ WF_vars(Tick)

-----------------------------------------------------------------------------
(* Requests that passed the quota gate of o and whose outcome the quota    *)
(* tracker has not been told yet.                                          *)
InFlight(o) ==
  { r \in Requests :
      /\ pc[r] \in { "health", "call", "okQuota", "errHealth", "errQuota",
                     "stream", "streamErrHealth", "streamErrQuota" }
      /\ ~recorded[r]
      /\ Outbound(r) = o }

(* 1 when o is in cooldown and its next probe has not been granted: that   *)
(* probe will not look at the window.                                      *)
ProbeAllowance(o) == IF InCooldown(o) /\ ~quotaProbing[o] THEN 1 ELSE 0

(* Each request in flight may still be charged, and so may the one probe a *)
(* cooldown grants without looking at the window.  Together with what is   *)
(* already charged they stay below the limit plus the number of concurrent *)
(* requests: gates (tracker.go BeforeAttempt) and charges (RecordSuccess)  *)
(* are separate critical sections, and only this sum is preserved by both. *)
ChargeBudget ==
  \A o \in QuotaSubjects :
    used[o] + Cardinality(InFlight(o)) + ProbeAllowance(o)
      <= MaxRequests - 1 + Cardinality(Requests)

(* The overshoot of an outbound's request limit is bounded by the number   *)
(* of concurrent requests, whatever 429s, cooldown probes, fallbacks and   *)
(* stream endings happen in between.                                       *)
OvershootBounded ==
  \A o \in Outbounds : used[o] <= MaxRequests - 1 + Cardinality(Requests)

Finished(r) == pc[r] = "idle" /\ plan[r] # << >>

(* A finished request left exactly one usage record, and no more than one  *)
(* when its stream was cut off by the client; a success record comes with  *)
(* exactly one charge of the outbound quota and one of the client quota,   *)
(* an error record with none, also when a stream fails and closes later.   *)
SettledOnce ==
  \A r \in Requests : Finished(r) =>
    /\ ledger[r]["success"] + ledger[r]["error"] <= 1
    /\ ledger[r]["success"] + ledger[r]["error"] = 0 => stream[r] /\ cancelled[r]
    /\ ledger[r]["quota"] = ledger[r]["success"]
    /\ ledger[r]["client"] = ledger[r]["success"]

(* What a request has written, at each point of its way: SettledOnce made  *)
(* inductive.  Nothing before its outcome is known, the error of a stream  *)
(* once, the charge of a success ahead of its record.                      *)
Wrote(r, success, error, quota) ==
  /\ ledger[r]["success"] = success
  /\ ledger[r]["client"] = success
  /\ ledger[r]["error"] = error
  /\ ledger[r]["quota"] = quota

ShapeOf(r) ==
  /\ pc[r] \in {"step", "health", "call", "errHealth", "errQuota", "okQuota"} =>
       ~recorded[r] /\ Wrote(r, 0, 0, 0)
  /\ pc[r] \in {"okHealth", "okRecord"} => ~recorded[r] /\ Wrote(r, 0, 0, 1)
  /\ pc[r] \in {"streamErrHealth", "streamErrQuota"} =>
       stream[r] /\ ~recorded[r] /\ Wrote(r, 0, 0, 0)
  /\ pc[r] = "stream" => stream[r] /\ Wrote(r, 0, IF recorded[r] THEN 1 ELSE 0, 0)
  /\ Finished(r) =>
       \/ Wrote(r, 1, 0, 1)
       \/ Wrote(r, 0, 1, 0)
       \/ Wrote(r, 0, 0, 0) /\ stream[r] /\ cancelled[r]

LedgerShape == \A r \in Requests : ShapeOf(r)

(* The error a request would return is, of all the errors it met (skipped  *)
(* steps included), the earliest of those with the highest priority.       *)
ReturnsPreferredError ==
  \A r \in Requests : seen[r] # << >> =>
    \E i \in 1..Len(seen[r]) :
      /\ lastErr[r] = seen[r][i]
      /\ \A j \in 1..Len(seen[r]) :
           /\ PreferredErrorPriority(seen[r][j]) <= PreferredErrorPriority(seen[r][i])
           /\ j < i => PreferredErrorPriority(seen[r][j]) < PreferredErrorPriority(seen[r][i])

(* The quota gate of tracker.go beforeAttempt locks no outbound out for    *)
(* ever: neither a probe that is never answered, nor 429s that keep        *)
(* coming, nor a full window.                                              *)
QuotaAdmitsAgain ==
  \A o \in Outbounds :
    []<>(IF InCooldown(o) THEN quotaProbeIn[o] = 0 /\ ~quotaProbing[o] ELSE used[o] < MaxRequests)

(* Nothing closes the health gate for good except a probe nobody ends:     *)
(* neither failures that keep coming nor requests that keep being refused. *)
HealthClosedOnlyByProbe ==
  \A o \in Outbounds : []<>~HealthBlocks(o) \/ <>[]healthProbing[o]

(* A degraded outbound is skipped, "then move[s] into `probing` when the   *)
(* next real request is allowed to test recovery": no outbound is refused  *)
(* for ever.                                                               *)
HealthRecovers == \A o \in Outbounds : []<>~HealthBlocks(o)

(* "After `probe_interval`, one real request may probe recovery": while    *)
(* the quota tracker takes a probe to be in flight, some request that      *)
(* passed the gate is on its way to the outbound.                          *)
QuotaProbeIsARequest ==
  \A o \in Outbounds : InCooldown(o) /\ quotaProbing[o] => InFlight(o) # {}
=============================================================================
