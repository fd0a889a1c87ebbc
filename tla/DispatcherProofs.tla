-------------------------- MODULE DispatcherProofs --------------------------
(***************************************************************************)
(* Machine-checked facts about Dispatcher, for every set of outbounds,     *)
(* every finite set of requests and every choice of plans, replies, limits *)
(* and intervals: the type invariant, what a request writes and the error  *)
(* it returns, and the bound on a request limit's overshoot.               *)
(***************************************************************************)
EXTENDS Dispatcher, FiniteSetTheorems, TLAPS

(* Zenon finds the proof of a leaf that does not name a prover.            *)
USE Zenon

ErrorOrNone == Errors \cup {NoError}
LedgerType == [Entries -> Nat]

(* The error that selectPreferredError keeps is one of its two arguments.  *)
LEMMA SelectType ==
  ASSUME NEW a \in ErrorOrNone, NEW b \in ErrorOrNone
  PROVE  SelectPreferredError(a, b) \in ErrorOrNone
BY DEF SelectPreferredError

(* Noting an error keeps lastErr and the history of errors well typed.     *)
LEMMA NoteType ==
  ASSUME TypeOK, NEW r \in Requests, NEW e \in Errors, Note(r, e)
  PROVE  /\ lastErr' \in [Requests -> ErrorOrNone]
         /\ seen' \in [Requests -> Seq(Errors)]
<1>1. SelectPreferredError(lastErr[r], e) \in ErrorOrNone
  BY SelectType DEF TypeOK, ErrorOrNone
<1>2. Append(seen[r], e) \in Seq(Errors)
  BY SMT DEF TypeOK
<1> QED
  BY <1>1, <1>2 DEF Note, TypeOK, ErrorOrNone

(* A write to the ledger of a request leaves the ledger well typed.        *)
LEMMA ChargeType ==
  ASSUME TypeOK, NEW r \in Requests, NEW entries, Charge(r, entries)
  PROVE  ledger' \in [Requests -> LedgerType]
BY SMT DEF Charge, TypeOK, LedgerType

(* Moving on to the next step, or returning after the last one, keeps the  *)
(* step index inside the plan.                                             *)
LEMMA NextStepType ==
  ASSUME TypeOK, NEW r \in Requests, pc[r] # "idle", NextStep(r), plan' = plan
  PROVE  /\ pc' \in [Requests -> PCs]
         /\ step' \in [Requests -> Nat]
         /\ \A q \in Requests : pc'[q] # "idle" => step'[q] \in 1..Len(plan'[q])
         /\ ledger' \in [Requests -> LedgerType]
<1>1. CASE IsLast(r)
  <2>1. Charge(r, {"error"}) /\ Goto(r, "idle") /\ UNCHANGED step
    BY <1>1 DEF NextStep
  <2> QED
    BY <2>1, ChargeType DEF TypeOK, Goto, PCs
<1>2. CASE ~IsLast(r)
  <2>1. Goto(r, "step") /\ step' = [step EXCEPT ![r] = @ + 1] /\ UNCHANGED ledger
    BY <1>2 DEF NextStep
  <2>2. Len(plan[r]) \in Nat /\ step[r] \in 1..Len(plan[r]) /\ step[r] # Len(plan[r])
    BY SMT, <1>2 DEF TypeOK, IsLast
  <2>3. step[r] + 1 \in 1..Len(plan[r])
    BY SMT, <2>2
  <2> QED
    BY SMT, <2>1, <2>3 DEF TypeOK, Goto, PCs, LedgerType
<1> QED
  BY <1>1, <1>2

-----------------------------------------------------------------------------
(* Each operation of the health tracker keeps its state well typed.        *)
LEMMA HealthOps ==
  ASSUME HealthTypeOK, NEW o \in Outbounds, NEW kind,
         \/ HealthAllow(o) \/ HealthProbe(o) \/ HealthBlock(o)
         \/ HealthRecordSuccess(o) \/ HealthRecordFailure(o, kind)
         \/ HealthTick \/ UNCHANGED healthVars
  PROVE  HealthTypeOK'
<1>1. CASE HealthAllow(o) \/ HealthBlock(o) \/ UNCHANGED healthVars
  BY <1>1 DEF HealthAllow, HealthBlock, healthVars, HealthTypeOK
<1>2. CASE HealthProbe(o)
  BY <1>2 DEF HealthProbe, HealthTypeOK
<1>3. CASE HealthRecordSuccess(o)
  BY SMT, <1>3, HealthAssumption DEF HealthRecordSuccess, HealthTypeOK
<1>4. CASE HealthRecordFailure(o, kind)
  <2>1. CASE ~IsRecoverable(kind)
    BY <1>4, <2>1 DEF HealthRecordFailure, HealthTypeOK, healthVars
  <2>2. CASE IsRecoverable(kind)
    <3>1. /\ failures' = [failures EXCEPT ![o] = IF @ < FailureThreshold THEN @ + 1 ELSE @]
          /\ healthProbing' = [healthProbing EXCEPT ![o] = FALSE]
          /\ \/ healthProbeIn' = [healthProbeIn EXCEPT ![o] = HealthProbeInterval]
             \/ healthProbeIn' = healthProbeIn
      BY <1>4, <2>2 DEF HealthRecordFailure
    <3> QED
      BY SMT, <3>1, HealthAssumption DEF HealthTypeOK
  <2> QED
    BY <2>1, <2>2
<1>5. CASE HealthTick
  BY SMT, <1>5, HealthAssumption DEF HealthTick, HealthTypeOK
<1> QED
  BY <1>1, <1>2, <1>3, <1>4, <1>5

(* So does each operation of the outbound quota tracker.                   *)
LEMMA QuotaOps ==
  ASSUME QuotaTypeOK, NEW o \in Outbounds,
         \/ QuotaUntracked(o) \/ QuotaAllow(o) \/ QuotaProbe(o)
         \/ QuotaBlockCooldown(o) \/ QuotaBlockLimited(o)
         \/ QuotaRecordSuccess(o) \/ QuotaRecordExceeded(o)
         \/ QuotaTick \/ WindowExpire(o) \/ UNCHANGED quotaVars
  PROVE  QuotaTypeOK'
<1>1. CASE QuotaUntracked(o) \/ QuotaBlockCooldown(o) \/ UNCHANGED quotaVars
  BY <1>1 DEF QuotaUntracked, QuotaBlockCooldown, quotaVars, QuotaTypeOK
<1>2. CASE QuotaAllow(o) \/ QuotaBlockLimited(o)
  <2>1. /\ UNCHANGED <<used, cooldownIn>>
        /\ \/ UNCHANGED <<quotaProbeIn, quotaProbing>>
           \/ /\ quotaProbeIn' = [quotaProbeIn EXCEPT ![o] = 0]
              /\ quotaProbing' = [quotaProbing EXCEPT ![o] = FALSE]
    BY <1>2 DEF QuotaAllow, QuotaBlockLimited, QuotaRollover
  <2>2. quotaProbeIn' \in [Outbounds -> 0..QuotaProbeInterval]
    BY SMT, <2>1, QuotaAssumption DEF QuotaTypeOK
  <2>3. quotaProbing' \in [Outbounds -> BOOLEAN]
    BY <2>1 DEF QuotaTypeOK
  <2> QED
    BY <2>1, <2>2, <2>3 DEF QuotaTypeOK
<1>3. CASE QuotaProbe(o)
  BY <1>3 DEF QuotaProbe, QuotaTypeOK
<1>4. CASE QuotaRecordSuccess(o) \/ QuotaRecordExceeded(o)
  <2>1. CASE o \notin QuotaSubjects
    BY <1>4, <2>1 DEF QuotaRecordSuccess, QuotaRecordExceeded, QuotaTypeOK, quotaVars
  <2>2. CASE o \in QuotaSubjects
    <3>1. \/ /\ used' = [used EXCEPT ![o] = @ + 1]
             /\ cooldownIn' = [cooldownIn EXCEPT ![o] = 0]
             /\ quotaProbeIn' = [quotaProbeIn EXCEPT ![o] = 0]
             /\ quotaProbing' = [quotaProbing EXCEPT ![o] = FALSE]
          \/ /\ used' = used
             /\ cooldownIn' = [cooldownIn EXCEPT ![o] = Cooldown]
             /\ quotaProbeIn' = [quotaProbeIn EXCEPT ![o] = QuotaProbeInterval]
             /\ quotaProbing' = [quotaProbing EXCEPT ![o] = FALSE]
      BY <1>4, <2>2 DEF QuotaRecordSuccess, QuotaRecordExceeded
    <3>2. used' \in [Outbounds -> Nat]
      BY SMT, <3>1 DEF QuotaTypeOK
    <3>3. cooldownIn' \in [Outbounds -> 0..Cooldown]
      BY SMT, <3>1, QuotaAssumption DEF QuotaTypeOK
    <3>4. quotaProbeIn' \in [Outbounds -> 0..QuotaProbeInterval]
      BY SMT, <3>1, QuotaAssumption DEF QuotaTypeOK
    <3>5. quotaProbing' \in [Outbounds -> BOOLEAN]
      BY <3>1 DEF QuotaTypeOK
    <3> QED
      BY <3>2, <3>3, <3>4, <3>5 DEF QuotaTypeOK
  <2> QED
    BY <2>1, <2>2
<1>5. CASE QuotaTick
  BY SMT, <1>5, QuotaAssumption DEF QuotaTick, QuotaTypeOK
<1>6. CASE WindowExpire(o)
  BY SMT, <1>6 DEF WindowExpire, QuotaTypeOK
<1> QED
  BY <1>1, <1>2, <1>3, <1>4, <1>5, <1>6

(* The outbound of the step a running request is at is a configured one.   *)
LEMMA OutboundType ==
  ASSUME TypeOK, NEW r \in Requests, pc[r] # "idle"
  PROVE  Outbound(r) \in Outbounds
<1>1. plan[r] \in Seq(Steps) /\ step[r] \in 1..Len(plan[r])
  BY DEF TypeOK
<1>2. plan[r][step[r]] \in Steps
  BY SMT, <1>1
<1> QED
  BY <1>2 DEF Outbound, Steps

(* A move to another point of the same step keeps the control state well   *)
(* typed.                                                                  *)
LEMMA GotoType ==
  ASSUME TypeOK, NEW r \in Requests, NEW label \in PCs, pc[r] # "idle",
         Goto(r, label), UNCHANGED <<plan, step>>
  PROVE  /\ pc' \in [Requests -> PCs]
         /\ step' \in [Requests -> Nat]
         /\ plan' \in [Requests -> Seq(Steps)]
         /\ \A q \in Requests : pc'[q] # "idle" => step'[q] \in 1..Len(plan'[q])
BY DEF TypeOK, Goto

(* Skipping a step keeps the request well typed.                           *)
LEMMA SkipType ==
  ASSUME TypeOK, NEW r \in Requests, pc[r] # "idle",
         NEW kind \in ErrorKinds, Skip(r, kind), HealthTypeOK', QuotaTypeOK'
  PROVE  TypeOK'
<1>1. [kind |-> kind, http |-> FALSE] \in Errors
  BY DEF Errors
<1>2. lastErr' \in [Requests -> ErrorOrNone] /\ seen' \in [Requests -> Seq(Errors)]
  BY <1>1, NoteType DEF Skip
<1>3. /\ pc' \in [Requests -> PCs]
      /\ step' \in [Requests -> Nat]
      /\ \A q \in Requests : pc'[q] # "idle" => step'[q] \in 1..Len(plan'[q])
      /\ ledger' \in [Requests -> LedgerType]
  BY NextStepType DEF Skip
<1> QED
  BY <1>2, <1>3 DEF Skip, TypeOK, ErrorOrNone, LedgerType

(* The type invariant is inductive.                                        *)
LEMMA TypeStep == TypeOK /\ [Next]_vars => TypeOK'
<1> SUFFICES ASSUME TypeOK, [Next]_vars PROVE TypeOK'
  OBVIOUS
<1>h. HealthTypeOK /\ QuotaTypeOK
  BY DEF TypeOK
<1>1. ASSUME NEW r \in Requests, Start(r) PROVE TypeOK'
  <2>1. PICK p \in Plans : plan' = [plan EXCEPT ![r] = p]
    BY <1>1 DEF Start
  <2>2. p \in Seq(Steps) /\ Len(p) \in Nat /\ Len(p) >= 1
    BY SMT, DispatcherAssumption
  <2>3. plan' \in [Requests -> Seq(Steps)]
    BY <2>1, <2>2 DEF TypeOK
  <2>4. /\ step' \in [Requests -> Nat]
        /\ pc' \in [Requests -> PCs]
        /\ \A q \in Requests : pc'[q] # "idle" => step'[q] \in 1..Len(plan'[q])
    BY SMT, <1>1, <2>1, <2>2 DEF Start, Goto, TypeOK, PCs
  <2>5. /\ stream' \in [Requests -> BOOLEAN]
        /\ cancelled' \in [Requests -> BOOLEAN]
        /\ recorded' \in [Requests -> BOOLEAN]
    BY <1>1 DEF Start, TypeOK
  <2>6. lastErr' \in [Requests -> ErrorOrNone] /\ err' \in [Requests -> ErrorOrNone]
    BY <1>1 DEF Start, TypeOK, ErrorOrNone
  <2>7. ledger' \in [Requests -> LedgerType] /\ seen' \in [Requests -> Seq(Errors)]
    BY SMT, <1>1 DEF Start, TypeOK, LedgerType, EmptyLedger
  <2>8. HealthTypeOK' /\ QuotaTypeOK'
    BY <1>1, <1>h DEF Start, HealthTypeOK, QuotaTypeOK, healthVars, quotaVars
  <2> QED
    BY <2>3, <2>4, <2>5, <2>6, <2>7, <2>8 DEF TypeOK, ErrorOrNone, LedgerType
<1>2. ASSUME NEW r \in Requests, SkipUnavailable(r) PROVE TypeOK'
  <2>1. pc[r] # "idle" /\ Skip(r, "model_unavailable") /\ UNCHANGED <<healthVars, quotaVars>>
    BY <1>2 DEF SkipUnavailable
  <2>2. HealthTypeOK' /\ QuotaTypeOK'
    BY <2>1, <1>h DEF HealthTypeOK, QuotaTypeOK, healthVars, quotaVars
  <2> QED
    BY <2>1, <2>2, SkipType DEF ErrorKinds
<1>3. ASSUME NEW r \in Requests, PassQuotaGate(r) PROVE TypeOK'
  <2>1. pc[r] # "idle" /\ Goto(r, "health") /\ UNCHANGED <<plan, step>>
    BY <1>3 DEF PassQuotaGate
  <2>2. QuotaTypeOK'
    BY <1>3, <1>h, <2>1, OutboundType, QuotaOps DEF PassQuotaGate
  <2>3. HealthTypeOK'
    BY <1>3, <1>h DEF PassQuotaGate, HealthTypeOK, healthVars
  <2> QED
    BY <1>3, <2>1, <2>2, <2>3, GotoType DEF PassQuotaGate, TypeOK, PCs
<1>4. ASSUME NEW r \in Requests, StopAtQuotaGate(r) PROVE TypeOK'
  <2>1. pc[r] # "idle" /\ Skip(r, "quota_exceeded")
    BY <1>4 DEF StopAtQuotaGate
  <2>2. QuotaTypeOK'
    BY <1>4, <1>h, <2>1, OutboundType, QuotaOps DEF StopAtQuotaGate
  <2>3. HealthTypeOK'
    BY <1>4, <1>h DEF StopAtQuotaGate, HealthTypeOK, healthVars
  <2> QED
    BY <2>1, <2>2, <2>3, SkipType DEF ErrorKinds
<1>5. ASSUME NEW r \in Requests, PassHealthGate(r) PROVE TypeOK'
  <2>1. pc[r] # "idle" /\ Goto(r, "call") /\ UNCHANGED <<plan, step>>
    BY <1>5 DEF PassHealthGate
  <2>2. HealthTypeOK'
    BY <1>5, <1>h, <2>1, OutboundType, HealthOps DEF PassHealthGate
  <2>3. QuotaTypeOK'
    BY <1>5, <1>h DEF PassHealthGate, QuotaTypeOK, quotaVars
  <2> QED
    BY <1>5, <2>1, <2>2, <2>3, GotoType DEF PassHealthGate, TypeOK, PCs
<1>6. ASSUME NEW r \in Requests, StopAtHealthGate(r) PROVE TypeOK'
  <2>1. pc[r] # "idle" /\ Skip(r, "retryable")
    BY <1>6 DEF StopAtHealthGate
  <2>2. HealthTypeOK'
    BY <1>6, <1>h, <2>1, OutboundType, HealthOps DEF StopAtHealthGate
  <2>3. QuotaTypeOK'
    BY <1>6, <1>h DEF StopAtHealthGate, QuotaTypeOK, quotaVars
  <2> QED
    BY <2>1, <2>2, <2>3, SkipType DEF ErrorKinds
<1>7. ASSUME NEW r \in Requests, CallSucceeds(r) PROVE TypeOK'
  <2>1. pc[r] # "idle" /\ UNCHANGED <<plan, step>> /\ UNCHANGED <<healthVars, quotaVars>>
    BY <1>7 DEF CallSucceeds
  <2>2. PICK label \in PCs : Goto(r, label)
    BY <1>7 DEF CallSucceeds, PCs
  <2>3. HealthTypeOK' /\ QuotaTypeOK'
    BY <2>1, <1>h DEF HealthTypeOK, QuotaTypeOK, healthVars, quotaVars
  <2> QED
    BY <1>7, <2>1, <2>2, <2>3, GotoType DEF CallSucceeds, TypeOK
<1>8. ASSUME NEW r \in Requests, CallFails(r) PROVE TypeOK'
  <2>1. PICK e \in Replies : Note(r, e) /\ err' = [err EXCEPT ![r] = e]
    BY <1>8 DEF CallFails
  <2>2. e \in Errors
    BY DispatcherAssumption DEF ProviderErrors, Errors
  <2>3. pc[r] # "idle" /\ Goto(r, "errHealth") /\ UNCHANGED <<plan, step>>
    BY <1>8 DEF CallFails
  <2>4. lastErr' \in [Requests -> ErrorOrNone] /\ seen' \in [Requests -> Seq(Errors)]
    BY <2>1, <2>2, NoteType
  <2>5. err' \in [Requests -> ErrorOrNone]
    BY <2>1, <2>2 DEF TypeOK, ErrorOrNone
  <2>6. HealthTypeOK' /\ QuotaTypeOK'
    BY <1>8, <1>h DEF CallFails, HealthTypeOK, QuotaTypeOK, healthVars, quotaVars
  <2> QED
    BY <1>8, <2>3, <2>4, <2>5, <2>6, GotoType DEF CallFails, TypeOK, PCs, ErrorOrNone
<1>9. ASSUME NEW r \in Requests, ReportFailureToHealth(r) PROVE TypeOK'
  <2>1. pc[r] # "idle" /\ Goto(r, "errQuota") /\ UNCHANGED <<plan, step>>
    BY <1>9 DEF ReportFailureToHealth
  <2>2. HealthTypeOK'
    BY <1>9, <1>h, <2>1, OutboundType, HealthOps DEF ReportFailureToHealth
  <2>3. QuotaTypeOK'
    BY <1>9, <1>h DEF ReportFailureToHealth, QuotaTypeOK, quotaVars
  <2> QED
    BY <1>9, <2>1, <2>2, <2>3, GotoType DEF ReportFailureToHealth, TypeOK, PCs
<1>10. ASSUME NEW r \in Requests, ReportFailureToQuota(r) PROVE TypeOK'
  <2>1. pc[r] # "idle" /\ plan' = plan
    BY <1>10 DEF ReportFailureToQuota
  <2>2. QuotaTypeOK'
    <3>1. QuotaRecordExceeded(Outbound(r)) \/ UNCHANGED quotaVars
      BY <1>10 DEF ReportFailureToQuota
    <3> QED
      BY <3>1, <1>h, <2>1, OutboundType, QuotaOps
  <2>3. HealthTypeOK'
    BY <1>10, <1>h DEF ReportFailureToQuota, HealthTypeOK, healthVars
  <2>4. /\ pc' \in [Requests -> PCs]
        /\ step' \in [Requests -> Nat]
        /\ \A q \in Requests : pc'[q] # "idle" => step'[q] \in 1..Len(plan'[q])
        /\ ledger' \in [Requests -> LedgerType]
    <3>1. CASE NextStep(r)
      BY <3>1, <2>1, NextStepType
    <3>2. CASE Goto(r, "idle") /\ Charge(r, {"error"}) /\ UNCHANGED step
      BY <3>2, <2>1, GotoType, ChargeType DEF PCs
    <3> QED
      BY <1>10, <3>1, <3>2 DEF ReportFailureToQuota
  <2> QED
    BY <1>10, <2>1, <2>2, <2>3, <2>4 DEF ReportFailureToQuota, TypeOK, LedgerType
<1>11. ASSUME NEW r \in Requests, ReportSuccessToQuota(r) PROVE TypeOK'
  <2>1. pc[r] # "idle" /\ Goto(r, "okHealth") /\ UNCHANGED <<plan, step>> /\ Charge(r, {"quota"})
    BY <1>11 DEF ReportSuccessToQuota
  <2>2. QuotaTypeOK'
    BY <1>11, <1>h, <2>1, OutboundType, QuotaOps DEF ReportSuccessToQuota
  <2>3. HealthTypeOK'
    BY <1>11, <1>h DEF ReportSuccessToQuota, HealthTypeOK, healthVars
  <2> QED
    BY <1>11, <2>1, <2>2, <2>3, GotoType, ChargeType DEF ReportSuccessToQuota, TypeOK, PCs, LedgerType
<1>12. ASSUME NEW r \in Requests, ReportSuccessToHealth(r) PROVE TypeOK'
  <2>1. pc[r] # "idle" /\ Goto(r, "okRecord") /\ UNCHANGED <<plan, step>>
    BY <1>12 DEF ReportSuccessToHealth
  <2>2. HealthTypeOK'
    BY <1>12, <1>h, <2>1, OutboundType, HealthOps DEF ReportSuccessToHealth
  <2>3. QuotaTypeOK'
    BY <1>12, <1>h DEF ReportSuccessToHealth, QuotaTypeOK, quotaVars
  <2> QED
    BY <1>12, <2>1, <2>2, <2>3, GotoType DEF ReportSuccessToHealth, TypeOK, PCs
<1>13. ASSUME NEW r \in Requests, RecordSuccess(r) PROVE TypeOK'
  <2>1. /\ pc[r] # "idle" /\ Goto(r, "idle") /\ UNCHANGED <<plan, step>>
        /\ Charge(r, {"success", "client"})
    BY <1>13 DEF RecordSuccess
  <2>2. HealthTypeOK' /\ QuotaTypeOK'
    BY <1>13, <1>h DEF RecordSuccess, HealthTypeOK, QuotaTypeOK, healthVars, quotaVars
  <2> QED
    BY <1>13, <2>1, <2>2, GotoType, ChargeType DEF RecordSuccess, TypeOK, PCs, LedgerType
<1>14. ASSUME NEW r \in Requests, StreamErrorEvent(r) PROVE TypeOK'
  <2>1. PICK e \in Replies : err' = [err EXCEPT ![r] = e]
    BY <1>14 DEF StreamErrorEvent
  <2>2. e \in Errors
    BY DispatcherAssumption DEF ProviderErrors, Errors
  <2>3. pc[r] # "idle" /\ Goto(r, "streamErrHealth") /\ UNCHANGED <<plan, step>>
    BY <1>14 DEF StreamErrorEvent
  <2>4. err' \in [Requests -> ErrorOrNone]
    BY <2>1, <2>2 DEF TypeOK, ErrorOrNone
  <2>5. HealthTypeOK' /\ QuotaTypeOK'
    BY <1>14, <1>h DEF StreamErrorEvent, HealthTypeOK, QuotaTypeOK, healthVars, quotaVars
  <2> QED
    BY <1>14, <2>3, <2>4, <2>5, GotoType DEF StreamErrorEvent, TypeOK, PCs, ErrorOrNone
<1>15. ASSUME NEW r \in Requests, ReportStreamErrorToHealth(r) PROVE TypeOK'
  <2>1. pc[r] # "idle" /\ Goto(r, "streamErrQuota") /\ UNCHANGED <<plan, step>>
    BY <1>15 DEF ReportStreamErrorToHealth
  <2>2. HealthTypeOK'
    BY <1>15, <1>h, <2>1, OutboundType, HealthOps DEF ReportStreamErrorToHealth
  <2>3. QuotaTypeOK'
    BY <1>15, <1>h DEF ReportStreamErrorToHealth, QuotaTypeOK, quotaVars
  <2> QED
    BY <1>15, <2>1, <2>2, <2>3, GotoType DEF ReportStreamErrorToHealth, TypeOK, PCs
<1>16. ASSUME NEW r \in Requests, ReportStreamErrorToQuota(r) PROVE TypeOK'
  <2>1. /\ pc[r] # "idle" /\ Goto(r, "stream") /\ UNCHANGED <<plan, step>>
        /\ Charge(r, {"error"})
    BY <1>16 DEF ReportStreamErrorToQuota
  <2>2. QuotaTypeOK'
    <3>1. QuotaRecordExceeded(Outbound(r)) \/ UNCHANGED quotaVars
      BY <1>16 DEF ReportStreamErrorToQuota
    <3> QED
      BY <3>1, <1>h, <2>1, OutboundType, QuotaOps
  <2>3. HealthTypeOK'
    BY <1>16, <1>h DEF ReportStreamErrorToQuota, HealthTypeOK, healthVars
  <2>4. recorded' \in [Requests -> BOOLEAN]
    BY <1>16 DEF ReportStreamErrorToQuota, TypeOK
  <2> QED
    BY <1>16, <2>1, <2>2, <2>3, <2>4, GotoType, ChargeType
    DEF ReportStreamErrorToQuota, TypeOK, PCs, LedgerType
<1>17. ASSUME NEW r \in Requests, StreamCloses(r) PROVE TypeOK'
  <2>1. pc[r] # "idle" /\ UNCHANGED <<plan, step>> /\ UNCHANGED <<healthVars, quotaVars>>
    BY <1>17 DEF StreamCloses
  <2>2. PICK label \in PCs : Goto(r, label)
    BY <1>17 DEF StreamCloses, PCs
  <2>3. HealthTypeOK' /\ QuotaTypeOK'
    BY <2>1, <1>h DEF HealthTypeOK, QuotaTypeOK, healthVars, quotaVars
  <2> QED
    BY <1>17, <2>1, <2>2, <2>3, GotoType DEF StreamCloses, TypeOK
<1>18. ASSUME NEW r \in Requests, StreamAborts(r) PROVE TypeOK'
  <2>1. pc[r] # "idle" /\ UNCHANGED <<plan, step>> /\ UNCHANGED <<healthVars, quotaVars>>
    BY <1>18 DEF StreamAborts
  <2>2. PICK label \in PCs : Goto(r, label)
    BY <1>18 DEF StreamAborts, PCs
  <2>3. HealthTypeOK' /\ QuotaTypeOK'
    BY <2>1, <1>h DEF HealthTypeOK, QuotaTypeOK, healthVars, quotaVars
  <2> QED
    BY <1>18, <2>1, <2>2, <2>3, GotoType DEF StreamAborts, TypeOK
<1>19. ASSUME NEW r \in Requests, ClientCancels(r) PROVE TypeOK'
  <2>1. cancelled' \in [Requests -> BOOLEAN]
    BY <1>19 DEF ClientCancels, TypeOK
  <2>2. HealthTypeOK' /\ QuotaTypeOK'
    BY <1>19, <1>h DEF ClientCancels, HealthTypeOK, QuotaTypeOK, healthVars, quotaVars
  <2> QED
    BY <1>19, <2>1, <2>2 DEF ClientCancels, TypeOK
<1>20. ASSUME NEW o \in Outbounds, Expire(o) PROVE TypeOK'
  <2>1. QuotaTypeOK'
    BY <1>20, <1>h, QuotaOps DEF Expire
  <2>2. HealthTypeOK'
    BY <1>20, <1>h DEF Expire, HealthTypeOK, healthVars
  <2> QED
    BY <1>20, <2>1, <2>2 DEF Expire, TypeOK, reqVars
<1>21. CASE Tick
  <2>1. PICK o \in Outbounds : TRUE
    BY <1>21 DEF Tick
  <2>2. HealthTypeOK' /\ QuotaTypeOK'
    BY <1>21, <1>h, <2>1, HealthOps, QuotaOps DEF Tick
  <2> QED
    BY <1>21, <2>2 DEF Tick, TypeOK, reqVars
<1>22. CASE UNCHANGED vars
  <2>1. HealthTypeOK' /\ QuotaTypeOK'
    BY <1>22, <1>h DEF vars, HealthTypeOK, QuotaTypeOK, healthVars, quotaVars
  <2> QED
    BY <1>22, <2>1 DEF vars, TypeOK, reqVars
<1> QED
  BY <1>1, <1>2, <1>3, <1>4, <1>5, <1>6, <1>7, <1>8, <1>9, <1>10, <1>11, <1>12, <1>13,
     <1>14, <1>15, <1>16, <1>17, <1>18, <1>19, <1>20, <1>21, <1>22
  DEF Next, Proceed

(* In the initial state everything is well typed.                          *)
LEMMA TypeInit == Init => TypeOK
<1> SUFFICES ASSUME Init PROVE TypeOK
  OBVIOUS
<1>1. HealthTypeOK
  BY SMT, HealthAssumption DEF Init, HealthInit, HealthTypeOK
<1>2. QuotaTypeOK
  BY SMT, QuotaAssumption DEF Init, QuotaInit, QuotaTypeOK
<1>3. seen \in [Requests -> Seq(Errors)] /\ plan \in [Requests -> Seq(Steps)]
  BY SMT DEF Init
<1>4. ledger \in [Requests -> [Entries -> Nat]]
  BY DEF Init, EmptyLedger
<1> QED
  BY <1>1, <1>2, <1>3, <1>4 DEF Init, TypeOK, PCs

(* Type correctness: whatever the plans, replies and interleavings, every  *)
(* variable keeps its type and a running request stays inside its plan.    *)
THEOREM TypeCorrect == Spec => []TypeOK
<1>1. Init => TypeOK
  BY TypeInit
<1>2. TypeOK /\ [Next]_vars => TypeOK'
  BY TypeStep
<1> QED
  BY <1>1, <1>2, PTL DEF Spec

-----------------------------------------------------------------------------
(* A step of one request leaves the private state of the others alone.     *)
OthersUnchanged(r) ==
  \A q \in Requests \ {r} :
    /\ pc'[q] = pc[q]
    /\ plan'[q] = plan[q]
    /\ step'[q] = step[q]
    /\ stream'[q] = stream[q]
    /\ cancelled'[q] = cancelled[q]
    /\ recorded'[q] = recorded[q]
    /\ ledger'[q] = ledger[q]

(* Every step of a request changes only its own slot.                      *)
LEMMA StepIsLocal ==
  ASSUME TypeOK, NEW r \in Requests, Start(r) \/ Proceed(r) \/ ClientCancels(r)
  PROVE  OthersUnchanged(r)
<1> USE DEF OthersUnchanged, TypeOK
<1>1. CASE Start(r) \/ ClientCancels(r)
  BY <1>1 DEF Start, ClientCancels, Goto
<1>2. ASSUME NEW kind, Skip(r, kind) PROVE OthersUnchanged(r)
  BY <1>2 DEF Skip, NextStep, Goto, Charge
<1>3. CASE SkipUnavailable(r) \/ StopAtQuotaGate(r) \/ StopAtHealthGate(r)
  BY <1>2, <1>3 DEF SkipUnavailable, StopAtQuotaGate, StopAtHealthGate
<1>4. CASE PassQuotaGate(r) \/ PassHealthGate(r) \/ CallSucceeds(r) \/ CallFails(r)
  BY <1>4 DEF PassQuotaGate, PassHealthGate, CallSucceeds, CallFails, Goto
<1>5. CASE ReportFailureToHealth(r) \/ ReportStreamErrorToHealth(r) \/ ReportSuccessToHealth(r)
  BY <1>5 DEF ReportFailureToHealth, ReportStreamErrorToHealth, ReportSuccessToHealth, Goto
<1>6. CASE ReportFailureToQuota(r)
  <2>1. NextStep(r) \/ (Goto(r, "idle") /\ Charge(r, {"error"}) /\ UNCHANGED step)
    BY <1>6 DEF ReportFailureToQuota
  <2> QED
    BY <1>6, <2>1 DEF ReportFailureToQuota, NextStep, Goto, Charge
<1>7. CASE ReportSuccessToQuota(r) \/ RecordSuccess(r) \/ ReportStreamErrorToQuota(r)
  BY <1>7 DEF ReportSuccessToQuota, RecordSuccess, ReportStreamErrorToQuota, Goto, Charge
<1>8. CASE StreamErrorEvent(r) \/ StreamCloses(r) \/ StreamAborts(r)
  BY <1>8 DEF StreamErrorEvent, StreamCloses, StreamAborts, Goto
<1> QED
  BY <1>1, <1>3, <1>4, <1>5, <1>6, <1>7, <1>8 DEF Proceed

-----------------------------------------------------------------------------
(* What Charge adds to the ledger of its request.                          *)
LEMMA ChargeAdds ==
  ASSUME TypeOK, NEW r \in Requests, NEW entries, Charge(r, entries)
  PROVE  \A f \in Entries : ledger'[r][f] = IF f \in entries THEN ledger[r][f] + 1 ELSE ledger[r][f]
BY DEF Charge, TypeOK

(* A request that did not move keeps its shape.                            *)
LEMMA ShapeFrame ==
  ASSUME NEW r \in Requests, ShapeOf(r),
         pc'[r] = pc[r], plan'[r] = plan[r], stream'[r] = stream[r],
         cancelled'[r] = cancelled[r], recorded'[r] = recorded[r], ledger'[r] = ledger[r]
  PROVE  ShapeOf(r)'
BY DEF ShapeOf, Wrote, Finished

(* Moving on from a skipped or failed step keeps the shape of the request: *)
(* it has written nothing yet, and writes one error record if it returns.  *)
LEMMA NextStepShape ==
  ASSUME TypeOK, NEW r \in Requests, ~recorded[r], Wrote(r, 0, 0, 0), NextStep(r),
         UNCHANGED <<plan, recorded, stream, cancelled>>
  PROVE  ShapeOf(r)'
<1>1. CASE IsLast(r)
  <2>1. Goto(r, "idle") /\ Charge(r, {"error"})
    BY <1>1 DEF NextStep
  <2>2. pc'[r] = "idle"
    BY <2>1 DEF Goto, TypeOK
  <2>3. Wrote(r, 0, 1, 0)'
    BY SMT, <2>1, ChargeAdds DEF Wrote, Entries
  <2> QED
    BY <2>2, <2>3 DEF ShapeOf
<1>2. CASE ~IsLast(r)
  <2>1. pc'[r] = "step" /\ ledger' = ledger
    BY <1>2 DEF NextStep, Goto, TypeOK
  <2> QED
    BY <2>1 DEF ShapeOf, Wrote, Finished
<1> QED
  BY <1>1, <1>2

(* A step of a request keeps the shape of its own ledger.                  *)
LEMMA OwnShape ==
  ASSUME TypeOK, LedgerShape, NEW r \in Requests, Start(r) \/ Proceed(r) \/ ClientCancels(r)
  PROVE  ShapeOf(r)'
<1>1. CASE Start(r)
  <2>1. pc'[r] = "step" /\ ~recorded'[r] /\ ledger'[r] = EmptyLedger
    BY <1>1 DEF Start, Goto, TypeOK
  <2> QED
    BY <2>1 DEF ShapeOf, Wrote, Finished, EmptyLedger, Entries
<1>2. CASE SkipUnavailable(r)
  <2>1. /\ ~recorded[r] /\ Wrote(r, 0, 0, 0) /\ NextStep(r)
        /\ UNCHANGED <<plan, recorded, stream, cancelled>>
    BY <1>2 DEF SkipUnavailable, Skip, LedgerShape, ShapeOf
  <2> QED
    BY <2>1, NextStepShape
<1>3. CASE PassQuotaGate(r)
  <2>1. pc'[r] = "health" /\ UNCHANGED <<ledger, recorded, stream>>
    BY <1>3 DEF PassQuotaGate, Goto, TypeOK
  <2> QED
    BY <1>3, <2>1 DEF PassQuotaGate, LedgerShape, ShapeOf, Wrote, Finished
<1>4. CASE StopAtQuotaGate(r)
  <2>1. /\ ~recorded[r] /\ Wrote(r, 0, 0, 0) /\ NextStep(r)
        /\ UNCHANGED <<plan, recorded, stream, cancelled>>
    BY <1>4 DEF StopAtQuotaGate, Skip, LedgerShape, ShapeOf
  <2> QED
    BY <2>1, NextStepShape
<1>5. CASE PassHealthGate(r)
  <2>1. pc'[r] = "call" /\ UNCHANGED <<ledger, recorded, stream>>
    BY <1>5 DEF PassHealthGate, Goto, TypeOK
  <2> QED
    BY <1>5, <2>1 DEF PassHealthGate, LedgerShape, ShapeOf, Wrote, Finished
<1>6. CASE StopAtHealthGate(r)
  <2>1. /\ ~recorded[r] /\ Wrote(r, 0, 0, 0) /\ NextStep(r)
        /\ UNCHANGED <<plan, recorded, stream, cancelled>>
    BY <1>6 DEF StopAtHealthGate, Skip, LedgerShape, ShapeOf
  <2> QED
    BY <2>1, NextStepShape
<1>7. CASE CallSucceeds(r)
  <2>1. /\ pc'[r] = IF stream[r] THEN "stream" ELSE "okQuota"
        /\ UNCHANGED <<ledger, recorded, stream>>
    BY <1>7 DEF CallSucceeds, Goto, TypeOK
  <2> QED
    BY <1>7, <2>1 DEF CallSucceeds, LedgerShape, ShapeOf, Wrote, Finished
<1>8. CASE CallFails(r)
  <2>1. pc'[r] = "errHealth" /\ UNCHANGED <<ledger, recorded, stream>>
    BY <1>8 DEF CallFails, Goto, TypeOK
  <2> QED
    BY <1>8, <2>1 DEF CallFails, LedgerShape, ShapeOf, Wrote, Finished
<1>9. CASE ReportFailureToHealth(r)
  <2>1. pc'[r] = "errQuota" /\ UNCHANGED <<ledger, recorded, stream>>
    BY <1>9 DEF ReportFailureToHealth, Goto, TypeOK
  <2> QED
    BY <1>9, <2>1 DEF ReportFailureToHealth, LedgerShape, ShapeOf, Wrote, Finished
<1>10. CASE ReportFailureToQuota(r)
  <2>1. ~recorded[r] /\ Wrote(r, 0, 0, 0) /\ UNCHANGED <<plan, recorded, stream, cancelled>>
    BY <1>10 DEF ReportFailureToQuota, LedgerShape, ShapeOf
  <2>2. CASE NextStep(r)
    BY <2>1, <2>2, NextStepShape
  <2>3. CASE Goto(r, "idle") /\ Charge(r, {"error"}) /\ UNCHANGED step
    <3>1. pc'[r] = "idle"
      BY <2>3 DEF Goto, TypeOK
    <3>2. Wrote(r, 0, 1, 0)'
      BY SMT, <2>1, <2>3, ChargeAdds DEF Wrote, Entries
    <3> QED
      BY <3>1, <3>2 DEF ShapeOf
  <2> QED
    BY <1>10, <2>2, <2>3 DEF ReportFailureToQuota
<1>11. CASE ReportSuccessToQuota(r)
  <2>1. pc'[r] = "okHealth" /\ Charge(r, {"quota"}) /\ UNCHANGED recorded
    BY <1>11 DEF ReportSuccessToQuota, Goto, TypeOK
  <2>2. ~recorded[r] /\ Wrote(r, 0, 0, 0)
    BY <1>11 DEF ReportSuccessToQuota, LedgerShape, ShapeOf
  <2>3. Wrote(r, 0, 0, 1)'
    BY SMT, <2>1, <2>2, ChargeAdds DEF Wrote, Entries
  <2> QED
    BY <2>1, <2>2, <2>3 DEF ShapeOf, Finished
<1>12. CASE ReportSuccessToHealth(r)
  <2>1. pc'[r] = "okRecord" /\ UNCHANGED <<ledger, recorded, stream>>
    BY <1>12 DEF ReportSuccessToHealth, Goto, TypeOK
  <2> QED
    BY <1>12, <2>1 DEF ReportSuccessToHealth, LedgerShape, ShapeOf, Wrote, Finished
<1>13. CASE RecordSuccess(r)
  <2>1. pc'[r] = "idle" /\ Charge(r, {"success", "client"})
    BY <1>13 DEF RecordSuccess, Goto, TypeOK
  <2>2. Wrote(r, 0, 0, 1)
    BY <1>13 DEF RecordSuccess, LedgerShape, ShapeOf
  <2>3. Wrote(r, 1, 0, 1)'
    BY SMT, <2>1, <2>2, ChargeAdds DEF Wrote, Entries
  <2> QED
    BY <2>1, <2>3 DEF ShapeOf
<1>14. CASE StreamErrorEvent(r)
  <2>1. pc'[r] = "streamErrHealth" /\ UNCHANGED <<ledger, recorded, stream>>
    BY <1>14 DEF StreamErrorEvent, Goto, TypeOK
  <2> QED
    BY <1>14, <2>1 DEF StreamErrorEvent, LedgerShape, ShapeOf, Wrote, Finished
<1>15. CASE ReportStreamErrorToHealth(r)
  <2>1. pc'[r] = "streamErrQuota" /\ UNCHANGED <<ledger, recorded, stream>>
    BY <1>15 DEF ReportStreamErrorToHealth, Goto, TypeOK
  <2> QED
    BY <1>15, <2>1 DEF ReportStreamErrorToHealth, LedgerShape, ShapeOf, Wrote, Finished
<1>16. CASE ReportStreamErrorToQuota(r)
  <2>1. pc'[r] = "stream" /\ recorded'[r] /\ Charge(r, {"error"}) /\ UNCHANGED stream
    BY <1>16 DEF ReportStreamErrorToQuota, Goto, TypeOK
  <2>2. stream[r] /\ Wrote(r, 0, 0, 0)
    BY <1>16 DEF ReportStreamErrorToQuota, LedgerShape, ShapeOf
  <2>3. Wrote(r, 0, 1, 0)'
    BY SMT, <2>1, <2>2, ChargeAdds DEF Wrote, Entries
  <2> QED
    BY <2>1, <2>2, <2>3 DEF ShapeOf, Finished
<1>17. CASE StreamCloses(r)
  <2>1. /\ pc'[r] = IF recorded[r] THEN "idle" ELSE "okQuota"
        /\ UNCHANGED <<ledger, recorded>>
    BY <1>17 DEF StreamCloses, Goto, TypeOK
  <2>2. Wrote(r, 0, IF recorded[r] THEN 1 ELSE 0, 0)
    BY <1>17 DEF StreamCloses, LedgerShape, ShapeOf
  <2> QED
    BY <2>1, <2>2 DEF ShapeOf, Wrote, Finished
<1>18. CASE StreamAborts(r)
  <2>1. pc'[r] = "idle" /\ UNCHANGED <<ledger, stream, cancelled>>
    BY <1>18 DEF StreamAborts, Goto, TypeOK
  <2>2. stream[r] /\ cancelled[r] /\ (Wrote(r, 0, 1, 0) \/ Wrote(r, 0, 0, 0))
    BY <1>18 DEF StreamAborts, LedgerShape, ShapeOf
  <2> QED
    BY <2>1, <2>2 DEF ShapeOf, Wrote, Finished
<1>19. CASE ClientCancels(r)
  <2>1. pc[r] # "idle" /\ UNCHANGED <<pc, ledger, stream, recorded>>
    BY <1>19 DEF ClientCancels
  <2> QED
    BY <2>1 DEF LedgerShape, ShapeOf, Wrote, Finished
<1> QED
  BY <1>1, <1>2, <1>3, <1>4, <1>5, <1>6, <1>7, <1>8, <1>9, <1>10, <1>11, <1>12, <1>13,
     <1>14, <1>15, <1>16, <1>17, <1>18, <1>19
  DEF Proceed

(* LedgerShape is inductive on well-typed states.                          *)
LEMMA ShapeStep == TypeOK /\ LedgerShape /\ [Next]_vars => LedgerShape'
<1> SUFFICES ASSUME TypeOK, LedgerShape, [Next]_vars, NEW q \in Requests
             PROVE  ShapeOf(q)'
  BY DEF LedgerShape
<1>0. ShapeOf(q)
  BY DEF LedgerShape
<1>1. ASSUME NEW r \in Requests, Start(r) \/ Proceed(r) \/ ClientCancels(r)
      PROVE  ShapeOf(q)'
  <2>1. CASE q = r
    BY <1>1, <2>1, OwnShape
  <2>2. CASE q # r
    <3>1. OthersUnchanged(r)
      BY <1>1, StepIsLocal
    <3> QED
      BY <1>0, <2>2, <3>1, ShapeFrame DEF OthersUnchanged
  <2> QED
    BY <2>1, <2>2
<1>2. CASE UNCHANGED reqVars
  BY <1>0, <1>2, ShapeFrame DEF reqVars
<1> QED
  BY <1>1, <1>2 DEF Next, Expire, Tick, vars

(* Every request the dispatcher is done with left exactly one usage record *)
(* and matching quota charges, except a stream its client cut off, which   *)
(* may have left none: Dispatch, DispatchStream and wrapStream settle each *)
(* request once on every path.                                             *)
THEOREM Settlement == Spec => []SettledOnce
<1>1. Init => LedgerShape
  BY DEF Init, LedgerShape, ShapeOf, Finished
<1>2. TypeOK /\ LedgerShape /\ [Next]_vars => LedgerShape'
  BY ShapeStep
<1>3. LedgerShape => SettledOnce
  BY SMT DEF LedgerShape, ShapeOf, SettledOnce, Wrote
<1> QED
  BY <1>1, <1>2, <1>3, TypeCorrect, PTL DEF Spec
-----------------------------------------------------------------------------
(* ReturnsPreferredError made inductive: without an error so far lastErr   *)
(* is still nil, and so the first error is kept whatever its priority.     *)
Prefers(r) ==
  IF seen[r] = << >> THEN lastErr[r] = NoError
  ELSE \E i \in 1..Len(seen[r]) :
         /\ lastErr[r] = seen[r][i]
         /\ \A j \in 1..Len(seen[r]) :
              /\ PreferredErrorPriority(seen[r][j]) <= PreferredErrorPriority(seen[r][i])
              /\ j < i => PreferredErrorPriority(seen[r][j]) < PreferredErrorPriority(seen[r][i])

(* Priorities are numbers, and nil is not an error.                        *)
LEMMA PriorityType ==
  ASSUME NEW e \in Errors
  PROVE  PreferredErrorPriority(e) \in Nat /\ e # NoError
<1>1. e.kind \in ErrorKinds /\ e.http \in BOOLEAN
  BY DEF Errors
<1>2. PreferredErrorPriority(e) \in Nat
  BY <1>1 DEF PreferredErrorPriority, ErrorKinds
<1>3. e # NoError
  BY SMT, <1>1 DEF NoError, ErrorKinds
<1> QED
  BY <1>2, <1>3

(* Noting one more error keeps the preferred one.                          *)
LEMMA NotePrefers ==
  ASSUME TypeOK, NEW r \in Requests, Prefers(r), NEW e \in Errors, Note(r, e)
  PROVE  Prefers(r)'
<1> DEFINE s == seen[r]
           n == Len(s)
           P(x) == PreferredErrorPriority(x)
<1>1. s \in Seq(Errors) /\ n \in Nat /\ \A i \in 1..n : s[i] \in Errors /\ P(s[i]) \in Nat
  BY SMT, PriorityType DEF TypeOK
<1>2. P(e) \in Nat /\ e # NoError
  BY PriorityType
<1>3. seen'[r] = Append(s, e) /\ lastErr'[r] = SelectPreferredError(lastErr[r], e)
  BY DEF Note, TypeOK
<1>4. /\ Len(seen'[r]) = n + 1 /\ seen'[r] # << >> /\ seen'[r][n + 1] = e
      /\ \A i \in 1..n : seen'[r][i] = s[i]
  <2>1. s \in Seq(Errors) /\ e \in Errors
    BY <1>1
  <2>2. /\ Len(Append(s, e)) = n + 1 /\ Append(s, e) # << >> /\ Append(s, e)[n + 1] = e
        /\ \A i \in 1..n : Append(s, e)[i] = s[i]
    BY ONLY <2>1
  <2> QED
    BY <1>3, <2>2
<1> HIDE DEF P
<1>5. CASE s = << >>
  <2>1. lastErr'[r] = e /\ n = 0
    BY <1>3, <1>5 DEF Prefers, SelectPreferredError
  <2> QED
    BY SMT, <1>2, <1>4, <2>1 DEF Prefers, P
<1>6. CASE s # << >>
  <2>1. PICK i \in 1..n : /\ lastErr[r] = s[i]
                          /\ \A j \in 1..n : P(s[j]) <= P(s[i]) /\ (j < i => P(s[j]) < P(s[i]))
    BY <1>6 DEF Prefers, P
  <2>2. lastErr'[r] = IF P(e) > P(s[i]) THEN e ELSE s[i]
    BY <1>1, <1>3, <2>1, PriorityType DEF SelectPreferredError, P
  <2>3. \A j \in 1..(n + 1) : j \in 1..n \/ j = n + 1
    BY SMT, <1>1
  <2>4. CASE P(e) > P(s[i])
    <3>1. \A j \in 1..n : P(s[j]) < P(e)
      BY SMT, <1>1, <1>2, <2>1, <2>4
    <3>2. /\ n + 1 \in 1..Len(seen'[r]) /\ lastErr'[r] = seen'[r][n + 1]
          /\ \A j \in 1..Len(seen'[r]) :
               /\ P(seen'[r][j]) <= P(seen'[r][n + 1])
               /\ j < n + 1 => P(seen'[r][j]) < P(seen'[r][n + 1])
      BY SMT, <1>1, <1>2, <1>4, <2>2, <2>3, <2>4, <3>1
    <3> QED
      BY <1>4, <3>2 DEF Prefers, P
  <2>5. CASE ~(P(e) > P(s[i]))
    <3>1. i \in 1..Len(seen'[r]) /\ i < n + 1
      BY SMT, <1>1, <1>4
    <3>2. /\ lastErr'[r] = seen'[r][i]
          /\ \A j \in 1..Len(seen'[r]) :
               /\ P(seen'[r][j]) <= P(seen'[r][i])
               /\ j < i => P(seen'[r][j]) < P(seen'[r][i])
      <4>1. seen'[r][i] = s[i] /\ lastErr'[r] = s[i] /\ P(s[i]) \in Nat
        BY <1>1, <1>4, <2>2, <2>5
      <4>2. P(e) <= P(s[i])
        BY SMT, <1>2, <2>5, <4>1
      <4>3. \A j \in 1..n : /\ P(seen'[r][j]) <= P(s[i]) /\ (j < i => P(seen'[r][j]) < P(s[i]))
        BY <1>4, <2>1
      <4>4. ~(n + 1 < i)
        BY SMT, <1>1, <3>1
      <4> QED
        BY <1>4, <2>3, <4>1, <4>2, <4>3, <4>4
    <3> QED
      BY <1>4, <3>1, <3>2 DEF Prefers, P
  <2> QED
    BY <2>4, <2>5
<1> QED
  BY <1>5, <1>6

(* A step notes an error of its request, or starts it with none, or leaves *)
(* the errors of every request alone.                                      *)
LEMMA NotesOnly ==
  ASSUME TypeOK, NEW r \in Requests, Start(r) \/ Proceed(r) \/ ClientCancels(r)
  PROVE  \/ \E e \in Errors : Note(r, e)
         \/ /\ lastErr' = [lastErr EXCEPT ![r] = NoError]
            /\ seen' = [seen EXCEPT ![r] = << >>]
         \/ UNCHANGED <<lastErr, seen>>
<1>1. ASSUME NEW kind \in ErrorKinds, Skip(r, kind)
      PROVE  \E e \in Errors : Note(r, e)
  <2>1. [kind |-> kind, http |-> FALSE] \in Errors
    BY DEF Errors
  <2> QED
    BY <1>1, <2>1 DEF Skip
<1>2. CASE Start(r)
  BY <1>2 DEF Start
<1>3. CASE ClientCancels(r)
  BY <1>3 DEF ClientCancels
<1>4. CASE SkipUnavailable(r) \/ StopAtQuotaGate(r) \/ StopAtHealthGate(r)
  BY <1>1, <1>4 DEF SkipUnavailable, StopAtQuotaGate, StopAtHealthGate, ErrorKinds
<1>5. CASE CallFails(r)
  <2>1. Replies \subseteq Errors
    BY DispatcherAssumption DEF ProviderErrors, Errors
  <2> QED
    BY <1>5, <2>1 DEF CallFails
<1> QED
  BY <1>2, <1>3, <1>4, <1>5
     DEF Proceed, PassQuotaGate, PassHealthGate, CallSucceeds, ReportFailureToHealth,
         ReportFailureToQuota, ReportSuccessToQuota, ReportSuccessToHealth, RecordSuccess,
         StreamErrorEvent, ReportStreamErrorToHealth, ReportStreamErrorToQuota, StreamCloses,
         StreamAborts

(* The error Dispatch and DispatchStream return is the first of the most   *)
(* informative ones the request met, however long its plan is.             *)
THEOREM Preference == Spec => []ReturnsPreferredError
<1> DEFINE Inv == \A r \in Requests : Prefers(r)
<1>1. Init => Inv
  BY DEF Init, Prefers
<1>2. TypeOK /\ Inv /\ [Next]_vars => Inv'
  <2> SUFFICES ASSUME TypeOK, Inv, [Next]_vars, NEW q \in Requests PROVE Prefers(q)'
    OBVIOUS
  <2>1. ASSUME NEW r \in Requests, Start(r) \/ Proceed(r) \/ ClientCancels(r)
        PROVE  Prefers(q)'
    <3>1. ASSUME NEW e \in Errors, Note(r, e)
          PROVE  Prefers(q)'
      <4>1. CASE q = r
        BY <3>1, <4>1, NotePrefers
      <4>2. CASE q # r
        BY SMT, <3>1, <4>2 DEF Note, Prefers, TypeOK
      <4> QED
        BY <4>1, <4>2
    <3>2. CASE /\ lastErr' = [lastErr EXCEPT ![r] = NoError]
               /\ seen' = [seen EXCEPT ![r] = << >>]
      <4>1. CASE q = r
        BY SMT, <3>2, <4>1 DEF Prefers, TypeOK
      <4>2. CASE q # r
        <5>1. lastErr'[q] = lastErr[q] /\ seen'[q] = seen[q]
          BY <3>2, <4>2 DEF TypeOK
        <5> QED
          BY <5>1 DEF Prefers
      <4> QED
        BY <4>1, <4>2
    <3>3. CASE UNCHANGED <<lastErr, seen>>
      BY <3>3 DEF Prefers
    <3> QED
      BY <2>1, <3>1, <3>2, <3>3, NotesOnly
  <2>2. CASE UNCHANGED reqVars
    BY <2>2 DEF reqVars, Prefers
  <2> QED
    BY <2>1, <2>2 DEF Next, Expire, Tick, vars
<1>3. Inv => ReturnsPreferredError
  BY DEF ReturnsPreferredError, Prefers
<1> QED
  BY <1>1, <1>2, <1>3, TypeCorrect, PTL DEF Spec

-----------------------------------------------------------------------------
(***************************************************************************)
(* The bound on how far an outbound's request limit can be overshot.       *)
(* used alone is not inductive: a request past the gate will be charged    *)
(* later, and a cooldown probe is let through whatever the window holds.   *)
(* ChargeBudget counts both; a 429 that starts a cooldown pays for the     *)
(* probe with the request it ends.                                         *)
(***************************************************************************)

(* Sets of requests are finite, and at most all requests.                  *)
LEMMA SubsetCard ==
  ASSUME NEW S \in SUBSET Requests
  PROVE  /\ IsFiniteSet(S)
         /\ Cardinality(S) \in Nat
         /\ Cardinality(Requests) \in Nat
         /\ Cardinality(S) <= Cardinality(Requests)
<1>1. IsFiniteSet(S) /\ Cardinality(S) <= Cardinality(Requests)
  BY DispatcherAssumption, FS_Subset
<1> QED
  BY <1>1, DispatcherAssumption, FS_CardinalityType

(* Taking a request out of a set of requests.                              *)
LEMMA RemoveCard ==
  ASSUME NEW S \in SUBSET Requests, NEW r \in Requests
  PROVE  Cardinality(S \ {r}) = IF r \in S THEN Cardinality(S) - 1 ELSE Cardinality(S)
BY SubsetCard, FS_RemoveElement

(* InFlight is a set of requests, in this state and in the next.           *)
LEMMA FlightType ==
  ASSUME NEW o
  PROVE  InFlight(o) \in SUBSET Requests /\ InFlight(o)' \in SUBSET Requests
BY DEF InFlight

(* A step of r cannot move another request into or out of InFlight.        *)
LEMMA FlightOthers ==
  ASSUME NEW r \in Requests, NEW o, OthersUnchanged(r)
  PROVE  InFlight(o)' \ {r} = InFlight(o) \ {r}
BY DEF InFlight, OthersUnchanged, Outbound

(* If r stays where it was, InFlight is the same set.                      *)
LEMMA FlightKept ==
  ASSUME NEW r \in Requests, NEW o, OthersUnchanged(r),
         r \in InFlight(o)' <=> r \in InFlight(o)
  PROVE  InFlight(o)' = InFlight(o)
BY SMT, FlightOthers

(* If r is out afterwards, there is one request less when it was in.       *)
LEMMA FlightLeft ==
  ASSUME NEW r \in Requests, NEW o, OthersUnchanged(r), r \notin InFlight(o)'
  PROVE  Cardinality(InFlight(o)') =
           IF r \in InFlight(o) THEN Cardinality(InFlight(o)) - 1 ELSE Cardinality(InFlight(o))
<1>1. InFlight(o)' = InFlight(o) \ {r}
  BY FlightOthers
<1> QED
  BY <1>1, FlightType, RemoveCard

-----------------------------------------------------------------------------
Budget(o) ==
  used[o] + Cardinality(InFlight(o)) + ProbeAllowance(o) <= MaxRequests - 1 + Cardinality(Requests)

(* The values the budget is a sum of are natural numbers.                  *)
LEMMA BudgetType ==
  ASSUME TypeOK, NEW o \in Outbounds
  PROVE  /\ used[o] \in Nat
         /\ Cardinality(InFlight(o)) \in Nat
         /\ Cardinality(InFlight(o)) <= Cardinality(Requests)
         /\ Cardinality(Requests) \in Nat
         /\ ProbeAllowance(o) \in {0, 1}
         /\ MaxRequests \in Nat \ {0}
<1>1. InFlight(o) \in SUBSET Requests
  BY FlightType
<1> QED
  BY <1>1, SubsetCard, QuotaAssumption DEF TypeOK, QuotaTypeOK, ProbeAllowance

NoDearer(o) == used'[o] <= used[o] /\ ProbeAllowance(o)' <= ProbeAllowance(o)

(* The part of a budget the tracker holds does not grow when the tracker   *)
(* is left alone, when a gate only rolls over or grants a probe, when time *)
(* passes and when events leave the window.                                *)
LEMMA QuietOps ==
  ASSUME TypeOK, NEW o \in Outbounds, NEW p \in Outbounds,
         \/ UNCHANGED quotaVars \/ QuotaBlockCooldown(p) \/ QuotaBlockLimited(p)
         \/ QuotaUntracked(p) \/ QuotaAllow(p) \/ QuotaProbe(p) \/ QuotaTick \/ WindowExpire(p)
  PROVE  NoDearer(o)
<1>0. /\ used \in [Outbounds -> Nat]
      /\ cooldownIn \in [Outbounds -> 0..Cooldown]
      /\ quotaProbing \in [Outbounds -> BOOLEAN]
      /\ Cooldown \in Nat
  BY QuotaAssumption DEF TypeOK, QuotaTypeOK
<1>1. CASE UNCHANGED quotaVars \/ QuotaBlockCooldown(p) \/ QuotaUntracked(p)
  BY SMT, <1>0, <1>1 DEF quotaVars, QuotaBlockCooldown, QuotaUntracked, NoDearer, ProbeAllowance, InCooldown
<1>2. CASE QuotaBlockLimited(p) \/ QuotaAllow(p)
  <2>1. /\ ~InCooldown(p) /\ used' = used /\ cooldownIn' = cooldownIn
        /\ \/ quotaProbing' = quotaProbing
           \/ quotaProbing' = [quotaProbing EXCEPT ![p] = FALSE]
    BY <1>2 DEF QuotaBlockLimited, QuotaAllow, QuotaRollover
  <2>2. ProbeAllowance(o)' = ProbeAllowance(o)
    BY <1>0, <2>1 DEF ProbeAllowance, InCooldown
  <2> QED
    BY SMT, <1>0, <2>1, <2>2 DEF NoDearer, ProbeAllowance
<1>3. CASE QuotaProbe(p)
  <2>1. used' = used /\ cooldownIn' = cooldownIn /\ quotaProbing' = [quotaProbing EXCEPT ![p] = TRUE]
    BY <1>3 DEF QuotaProbe
  <2> QED
    BY SMT, <1>0, <2>1 DEF NoDearer, ProbeAllowance, InCooldown
<1>4. CASE QuotaTick
  <2>1. /\ used' = used /\ quotaProbing' = quotaProbing
        /\ cooldownIn'[o] = IF cooldownIn[o] > 0 THEN cooldownIn[o] - 1 ELSE 0
    BY <1>4 DEF QuotaTick
  <2> QED
    BY SMT, <1>0, <2>1 DEF NoDearer, ProbeAllowance, InCooldown
<1>5. CASE WindowExpire(p)
  <2>1. PICK n \in 0..(used[p] - 1) : used' = [used EXCEPT ![p] = n]
    BY <1>5 DEF WindowExpire
  <2>2. cooldownIn' = cooldownIn /\ quotaProbing' = quotaProbing
    BY <1>5 DEF WindowExpire
  <2> QED
    BY SMT, <1>0, <2>1, <2>2 DEF NoDearer, ProbeAllowance, InCooldown
<1> QED
  BY <1>1, <1>2, <1>3, <1>4, <1>5

(* A step that leaves r in or out of InFlight, and the tracker no dearer,  *)
(* keeps the budget; so does one that ends with r out of InFlight.         *)
LEMMA BudgetQuiet ==
  ASSUME TypeOK, TypeOK', NEW r \in Requests, NEW o \in Outbounds, OthersUnchanged(r),
         Budget(o), NoDearer(o),
         (r \in InFlight(o)' <=> r \in InFlight(o)) \/ r \notin InFlight(o)'
  PROVE  Budget(o)'
<1>1. /\ used[o] \in Nat /\ used'[o] \in Nat
      /\ ProbeAllowance(o) \in {0, 1} /\ ProbeAllowance(o)' \in {0, 1}
      /\ Cardinality(InFlight(o)) \in Nat /\ Cardinality(InFlight(o)') \in Nat
      /\ Cardinality(Requests) \in Nat /\ MaxRequests \in Nat
  <2>1. InFlight(o)' \in SUBSET Requests
    BY FlightType
  <2> QED
    BY <2>1, BudgetType, SubsetCard DEF TypeOK, QuotaTypeOK, ProbeAllowance
<1>2. Cardinality(InFlight(o)') <= Cardinality(InFlight(o))
  <2>1. CASE r \in InFlight(o)' <=> r \in InFlight(o)
    BY SMT, <1>1, <2>1, FlightKept
  <2>2. CASE r \notin InFlight(o)'
    BY SMT, <1>1, <2>2, FlightLeft
  <2> QED
    BY <2>1, <2>2
<1> QED
  BY SMT, <1>1, <1>2 DEF Budget, NoDearer

(* Where the steps that do not touch the quota tracker leave r.            *)
LEMMA QuietSteps ==
  ASSUME TypeOK, LedgerShape, NEW r \in Requests, NEW o \in Outbounds,
         \/ Start(r) \/ SkipUnavailable(r) \/ PassHealthGate(r) \/ StopAtHealthGate(r)
         \/ CallSucceeds(r) \/ CallFails(r) \/ ReportFailureToHealth(r)
         \/ ReportSuccessToHealth(r) \/ RecordSuccess(r) \/ StreamErrorEvent(r)
         \/ ReportStreamErrorToHealth(r) \/ StreamCloses(r) \/ StreamAborts(r)
         \/ ClientCancels(r)
  PROVE  /\ UNCHANGED quotaVars
         /\ (r \in InFlight(o)' <=> r \in InFlight(o)) \/ r \notin InFlight(o)'
<1>1. CASE Start(r)
  <2>1. pc'[r] = "step" /\ UNCHANGED quotaVars
    BY <1>1 DEF Start, Goto, TypeOK
  <2> QED
    BY <2>1 DEF InFlight
<1>2. CASE SkipUnavailable(r) \/ StopAtHealthGate(r)
  <2>1. pc'[r] \in {"step", "idle"} /\ UNCHANGED quotaVars
    BY <1>2 DEF SkipUnavailable, StopAtHealthGate, Skip, NextStep, Goto, TypeOK
  <2> QED
    BY <2>1 DEF InFlight
<1>3. CASE PassHealthGate(r)
  <2>1. UNCHANGED <<plan, step, recorded>> /\ UNCHANGED quotaVars
    BY <1>3 DEF PassHealthGate
  <2> QED
    BY <1>3, <2>1 DEF PassHealthGate, Goto, TypeOK, InFlight, Outbound
<1>4. CASE CallSucceeds(r)
  <2>1. UNCHANGED <<plan, step, recorded>> /\ UNCHANGED quotaVars
    BY <1>4 DEF CallSucceeds
  <2> QED
    BY <1>4, <2>1 DEF CallSucceeds, Goto, TypeOK, InFlight, Outbound
<1>5. CASE CallFails(r)
  <2>1. UNCHANGED <<plan, step, recorded>> /\ UNCHANGED quotaVars
    BY <1>5 DEF CallFails
  <2> QED
    BY <1>5, <2>1 DEF CallFails, Goto, TypeOK, InFlight, Outbound
<1>6. CASE ReportFailureToHealth(r)
  <2>1. UNCHANGED <<plan, step, recorded>> /\ UNCHANGED quotaVars
    BY <1>6 DEF ReportFailureToHealth
  <2> QED
    BY <1>6, <2>1 DEF ReportFailureToHealth, Goto, TypeOK, InFlight, Outbound
<1>7. CASE ReportSuccessToHealth(r)
  <2>1. UNCHANGED <<plan, step, recorded>> /\ UNCHANGED quotaVars
    BY <1>7 DEF ReportSuccessToHealth
  <2> QED
    BY <1>7, <2>1 DEF ReportSuccessToHealth, Goto, TypeOK, InFlight, Outbound
<1>8. CASE RecordSuccess(r)
  <2>1. UNCHANGED <<plan, step, recorded>> /\ UNCHANGED quotaVars
    BY <1>8 DEF RecordSuccess
  <2> QED
    BY <1>8, <2>1 DEF RecordSuccess, Goto, TypeOK, InFlight, Outbound
<1>9. CASE StreamErrorEvent(r)
  <2>1. UNCHANGED <<plan, step, recorded>> /\ UNCHANGED quotaVars
    BY <1>9 DEF StreamErrorEvent
  <2> QED
    BY <1>9, <2>1 DEF StreamErrorEvent, Goto, TypeOK, InFlight, Outbound
<1>10. CASE ReportStreamErrorToHealth(r)
  <2>1. UNCHANGED <<plan, step, recorded>> /\ UNCHANGED quotaVars
    BY <1>10 DEF ReportStreamErrorToHealth
  <2> QED
    BY <1>10, <2>1 DEF ReportStreamErrorToHealth, Goto, TypeOK, InFlight, Outbound
<1>11. CASE StreamCloses(r)
  <2>1. UNCHANGED <<plan, step, recorded>> /\ UNCHANGED quotaVars
    BY <1>11 DEF StreamCloses
  <2> QED
    BY <1>11, <2>1 DEF StreamCloses, Goto, TypeOK, InFlight, Outbound
<1>12. CASE StreamAborts(r)
  <2>1. UNCHANGED <<plan, step, recorded>> /\ UNCHANGED quotaVars
    BY <1>12 DEF StreamAborts
  <2> QED
    BY <1>12, <2>1 DEF StreamAborts, Goto, TypeOK, InFlight, Outbound
<1>13. CASE ClientCancels(r)
  <2>1. UNCHANGED <<plan, step, recorded>> /\ UNCHANGED quotaVars
    BY <1>13 DEF ClientCancels
  <2> QED
    BY <1>13, <2>1 DEF ClientCancels, Goto, TypeOK, InFlight, Outbound
<1> QED
  BY <1>1, <1>2, <1>3, <1>4, <1>5, <1>6, <1>7, <1>8, <1>9, <1>10, <1>11, <1>12, <1>13

(* A request that is let through the quota gate.  An ordinary one finds    *)
(* the window below its limit; a probe uses up the allowance.              *)
LEMMA PassBudget ==
  ASSUME TypeOK, TypeOK', NEW r \in Requests, NEW o \in QuotaSubjects, OthersUnchanged(r),
         Budget(o), PassQuotaGate(r)
  PROVE  Budget(o)'
<1>o. o \in Outbounds /\ Outbound(r) \in Outbounds
  BY OutboundType, QuotaAssumption DEF PassQuotaGate
<1>1. /\ used[o] \in Nat /\ used'[o] \in Nat
      /\ ProbeAllowance(o) \in {0, 1} /\ ProbeAllowance(o)' \in {0, 1}
      /\ Cardinality(InFlight(o)) \in Nat /\ Cardinality(InFlight(o)') \in Nat
      /\ Cardinality(InFlight(o)') <= Cardinality(Requests)
      /\ Cardinality(Requests) \in Nat /\ MaxRequests \in Nat
  <2>1. InFlight(o)' \in SUBSET Requests
    BY FlightType
  <2> QED
    BY <1>o, <2>1, BudgetType, SubsetCard DEF TypeOK, QuotaTypeOK, ProbeAllowance
<1>2. NoDearer(o)
  BY <1>o, QuietOps DEF PassQuotaGate
<1>3. r \notin InFlight(o)
  BY DEF InFlight, PassQuotaGate
<1>4. UNCHANGED <<plan, step>>
  BY DEF PassQuotaGate
<1>5. CASE Outbound(r) # o
  <2>1. r \notin InFlight(o)'
    BY <1>4, <1>5 DEF InFlight, Outbound
  <2> QED
    BY <1>o, <1>2, <1>3, <2>1, BudgetQuiet
<1>6. CASE Outbound(r) = o /\ QuotaAllow(o)
  <2>1. used'[o] < MaxRequests /\ ProbeAllowance(o)' = 0
    BY <1>6 DEF QuotaAllow, ProbeAllowance, InCooldown
  <2> QED
    BY SMT, <1>1, <2>1 DEF Budget
<1>7. CASE Outbound(r) = o /\ QuotaProbe(o)
  <2>1. ProbeAllowance(o) = 1
    BY <1>7 DEF QuotaProbe, ProbeAllowance
  <2>2. ProbeAllowance(o)' = 0 /\ used' = used
    BY <1>o, <1>7 DEF QuotaProbe, ProbeAllowance, TypeOK, QuotaTypeOK
  <2>3. InFlight(o)' \subseteq InFlight(o) \cup {r}
    BY FlightOthers
  <2>4. Cardinality(InFlight(o)') <= Cardinality(InFlight(o)) + 1
    <3>1. IsFiniteSet(InFlight(o)) /\ InFlight(o) \cup {r} \in SUBSET Requests
      BY FlightType, SubsetCard
    <3>2. /\ IsFiniteSet(InFlight(o) \cup {r})
          /\ Cardinality(InFlight(o) \cup {r}) = Cardinality(InFlight(o)) + 1
      BY <1>3, <3>1, FS_AddElement
    <3> QED
      BY <2>3, <3>2, FS_Subset
  <2> QED
    BY SMT, <1>1, <2>1, <2>2, <2>4 DEF Budget
<1> QED
  BY <1>5, <1>6, <1>7 DEF PassQuotaGate, QuotaUntracked

(* A request whose outcome the quota tracker is told: it leaves InFlight,  *)
(* and pays for the charge or for the probe of the cooldown it starts.     *)
LEMMA ReportBudget ==
  ASSUME TypeOK, TypeOK', LedgerShape, NEW r \in Requests, NEW o \in QuotaSubjects,
         OthersUnchanged(r), Budget(o),
         ReportFailureToQuota(r) \/ ReportSuccessToQuota(r) \/ ReportStreamErrorToQuota(r)
  PROVE  Budget(o)'
<1>o. o \in Outbounds /\ Outbound(r) \in Outbounds
  BY OutboundType, QuotaAssumption
  DEF ReportFailureToQuota, ReportSuccessToQuota, ReportStreamErrorToQuota
<1>1. /\ used[o] \in Nat /\ used'[o] \in Nat
      /\ ProbeAllowance(o) \in {0, 1} /\ ProbeAllowance(o)' \in {0, 1}
      /\ Cardinality(InFlight(o)) \in Nat /\ Cardinality(InFlight(o)') \in Nat
      /\ Cardinality(Requests) \in Nat /\ MaxRequests \in Nat
  <2>1. InFlight(o)' \in SUBSET Requests
    BY FlightType
  <2> QED
    BY <1>o, <2>1, BudgetType, SubsetCard DEF TypeOK, QuotaTypeOK, ProbeAllowance
<1>2. r \notin InFlight(o)'
  <2>1. CASE ReportFailureToQuota(r)
    <3>1. pc'[r] \in {"step", "idle"}
      BY <2>1 DEF ReportFailureToQuota, NextStep, Goto, TypeOK
    <3> QED
      BY <3>1 DEF InFlight
  <2>2. CASE ReportSuccessToQuota(r)
    BY <2>2 DEF ReportSuccessToQuota, Goto, TypeOK, InFlight
  <2>3. CASE ReportStreamErrorToQuota(r)
    <3>1. recorded'[r]
      BY <2>3 DEF ReportStreamErrorToQuota, TypeOK
    <3> QED
      BY <3>1 DEF InFlight
  <2> QED
    BY <2>1, <2>2, <2>3
<1>3. CASE UNCHANGED quotaVars
  BY <1>o, <1>2, <1>3, QuietOps, BudgetQuiet
<1>4. CASE Outbound(r) # o /\ (QuotaRecordExceeded(Outbound(r)) \/ QuotaRecordSuccess(Outbound(r)))
  <2>1. /\ used'[o] = used[o] /\ cooldownIn'[o] = cooldownIn[o]
        /\ quotaProbing'[o] = quotaProbing[o]
    <3>1. PICK p \in Outbounds : p # o /\ (QuotaRecordExceeded(p) \/ QuotaRecordSuccess(p))
      BY <1>4, <1>o
    <3>2. CASE QuotaRecordExceeded(p)
      <4>1. CASE p \notin QuotaSubjects
        BY <3>2, <4>1 DEF QuotaRecordExceeded, quotaVars
      <4>2. CASE p \in QuotaSubjects
        BY <1>o, <3>1, <3>2, <4>2 DEF QuotaRecordExceeded, TypeOK, QuotaTypeOK
      <4> QED
        BY <4>1, <4>2
    <3>3. CASE QuotaRecordSuccess(p)
      <4>1. CASE p \notin QuotaSubjects
        BY <3>3, <4>1 DEF QuotaRecordSuccess, quotaVars
      <4>2. CASE p \in QuotaSubjects
        <5>1. DOMAIN used = Outbounds /\ DOMAIN cooldownIn = Outbounds /\ DOMAIN quotaProbing = Outbounds
          BY DEF TypeOK, QuotaTypeOK
        <5>2. /\ used' = [used EXCEPT ![p] = @ + 1] /\ cooldownIn' = [cooldownIn EXCEPT ![p] = 0]
              /\ quotaProbing' = [quotaProbing EXCEPT ![p] = FALSE]
          BY <3>3, <4>2 DEF QuotaRecordSuccess
        <5> QED
          BY <1>o, <3>1, <5>1, <5>2
      <4> QED
        BY <4>1, <4>2
    <3> QED
      BY <3>1, <3>2, <3>3
  <2>2. ProbeAllowance(o)' = ProbeAllowance(o)
    BY <2>1 DEF ProbeAllowance, InCooldown
  <2>3. NoDearer(o)
    BY SMT, <1>1, <2>1, <2>2 DEF NoDearer
  <2> QED
    BY <1>o, <1>2, <2>3, BudgetQuiet
<1>5. CASE Outbound(r) = o /\ (QuotaRecordExceeded(o) \/ QuotaRecordSuccess(o))
  <2>1. r \in InFlight(o)
    BY <1>5 DEF InFlight, LedgerShape, ShapeOf,
                ReportFailureToQuota, ReportSuccessToQuota, ReportStreamErrorToQuota
  <2>2. Cardinality(InFlight(o)') = Cardinality(InFlight(o)) - 1
    BY <1>2, <2>1, FlightLeft
  <2>3. \/ used'[o] = used[o]
        \/ used'[o] = used[o] + 1 /\ ProbeAllowance(o)' = 0
    <3>1. CASE QuotaRecordExceeded(o)
      BY <3>1 DEF QuotaRecordExceeded
    <3>2. CASE QuotaRecordSuccess(o)
      <4>1. used'[o] = used[o] + 1 /\ cooldownIn'[o] = 0
        BY SMT, <1>o, <3>2 DEF QuotaRecordSuccess, TypeOK, QuotaTypeOK
      <4> QED
        BY SMT, <4>1 DEF ProbeAllowance, InCooldown
    <3> QED
      BY <1>5, <3>1, <3>2
  <2> QED
    BY SMT, <1>1, <2>2, <2>3 DEF Budget
<1> QED
  BY <1>3, <1>4, <1>5 DEF ReportFailureToQuota, ReportSuccessToQuota, ReportStreamErrorToQuota

-----------------------------------------------------------------------------
(* The charge budget is inductive on well-typed states of the right shape. *)
LEMMA BudgetStep ==
  TypeOK /\ TypeOK' /\ LedgerShape /\ ChargeBudget /\ [Next]_vars => ChargeBudget'
<1> SUFFICES ASSUME TypeOK, TypeOK', LedgerShape, ChargeBudget, [Next]_vars, NEW o \in QuotaSubjects
             PROVE  Budget(o)'
  BY DEF ChargeBudget, Budget
<1>0. Budget(o) /\ o \in Outbounds
  BY QuotaAssumption DEF ChargeBudget, Budget
<1>1. ASSUME NEW r \in Requests, Start(r) \/ Proceed(r) \/ ClientCancels(r)
      PROVE  Budget(o)'
  <2>0. OthersUnchanged(r)
    BY <1>1, StepIsLocal
  <2>1. CASE PassQuotaGate(r)
    BY <1>0, <2>0, <2>1, PassBudget
  <2>2. CASE StopAtQuotaGate(r)
    <3>1. Outbound(r) \in Outbounds
      BY <2>2, OutboundType DEF StopAtQuotaGate
    <3>2. NoDearer(o)
      BY <1>0, <2>2, <3>1, QuietOps DEF StopAtQuotaGate
    <3>3. pc'[r] \in {"step", "idle"}
      BY <2>2 DEF StopAtQuotaGate, Skip, NextStep, Goto, TypeOK
    <3>4. r \notin InFlight(o)'
      BY <3>3 DEF InFlight
    <3> QED
      BY <1>0, <2>0, <3>2, <3>4, BudgetQuiet
  <2>3. CASE ReportFailureToQuota(r) \/ ReportSuccessToQuota(r) \/ ReportStreamErrorToQuota(r)
    BY <1>0, <2>0, <2>3, ReportBudget
  <2>4. CASE \/ Start(r) \/ SkipUnavailable(r) \/ PassHealthGate(r) \/ StopAtHealthGate(r)
             \/ CallSucceeds(r) \/ CallFails(r) \/ ReportFailureToHealth(r)
             \/ ReportSuccessToHealth(r) \/ RecordSuccess(r) \/ StreamErrorEvent(r)
             \/ ReportStreamErrorToHealth(r) \/ StreamCloses(r) \/ StreamAborts(r)
             \/ ClientCancels(r)
    <3>1. /\ UNCHANGED quotaVars
          /\ (r \in InFlight(o)' <=> r \in InFlight(o)) \/ r \notin InFlight(o)'
      BY <1>0, <2>4, QuietSteps
    <3>2. NoDearer(o)
      BY <1>0, <3>1, QuietOps
    <3> QED
      BY <1>0, <2>0, <3>1, <3>2, BudgetQuiet
  <2> QED
    BY <1>1, <2>1, <2>2, <2>3, <2>4 DEF Proceed
<1>2. CASE UNCHANGED reqVars /\ NoDearer(o)
  <2>1. InFlight(o)' = InFlight(o)
    BY <1>2 DEF reqVars, InFlight, Outbound
  <2>2. /\ used[o] \in Nat /\ used'[o] \in Nat
        /\ ProbeAllowance(o) \in {0, 1} /\ ProbeAllowance(o)' \in {0, 1}
        /\ Cardinality(InFlight(o)) \in Nat
        /\ Cardinality(Requests) \in Nat /\ MaxRequests \in Nat
    BY <1>0, BudgetType DEF TypeOK, QuotaTypeOK, ProbeAllowance
  <2> QED
    BY SMT, <1>0, <1>2, <2>1, <2>2 DEF Budget, NoDearer
<1>3. ASSUME NEW p \in Outbounds, Expire(p) PROVE UNCHANGED reqVars /\ NoDearer(o)
  BY <1>0, <1>3, QuietOps DEF Expire
<1>4. ASSUME Tick PROVE UNCHANGED reqVars /\ NoDearer(o)
  BY <1>0, <1>4, QuietOps DEF Tick
<1>5. ASSUME UNCHANGED vars PROVE UNCHANGED reqVars /\ NoDearer(o)
  BY <1>0, <1>5, QuietOps DEF vars
<1> QED
  BY <1>1, <1>2, <1>3, <1>4, <1>5 DEF Next

UntrackedUnused == \A o \in Outbounds \ QuotaSubjects : used[o] = 0

(* An outbound without a quota is never charged.                           *)
LEMMA UntrackedStep == TypeOK /\ UntrackedUnused /\ [Next]_vars => UntrackedUnused'
<1> SUFFICES ASSUME TypeOK, UntrackedUnused, [Next]_vars, NEW o \in Outbounds \ QuotaSubjects
             PROVE  used'[o] = 0
  BY DEF UntrackedUnused
<1>0. used[o] = 0
  BY DEF UntrackedUnused
<1>1. ASSUME NEW p \in Outbounds, QuotaRecordSuccess(p) PROVE used'[o] = 0
  <2>1. CASE p \notin QuotaSubjects
    BY <1>0, <1>1, <2>1 DEF QuotaRecordSuccess, quotaVars
  <2>2. CASE p \in QuotaSubjects
    BY <1>0, <1>1, <2>2 DEF QuotaRecordSuccess, TypeOK, QuotaTypeOK
  <2> QED
    BY <2>1, <2>2
<1>2. ASSUME NEW r \in Requests, ReportSuccessToQuota(r) PROVE used'[o] = 0
  <2>1. pc[r] # "idle" /\ QuotaRecordSuccess(Outbound(r))
    BY <1>2 DEF ReportSuccessToQuota
  <2> QED
    BY <1>1, <2>1, OutboundType
<1>3. ASSUME NEW p \in Outbounds, Expire(p) PROVE used'[o] = 0
  <2>1. used[p] > 0
    BY <1>3 DEF Expire, WindowExpire
  <2>2. PICK n : used' = [used EXCEPT ![p] = n]
    BY <1>3 DEF Expire, WindowExpire
  <2> QED
    BY SMT, <1>0, <2>1, <2>2 DEF TypeOK, QuotaTypeOK
<1>4. ASSUME NEW r \in Requests, ReportFailureToQuota(r) \/ ReportStreamErrorToQuota(r)
      PROVE  used' = used
  <2>1. QuotaRecordExceeded(Outbound(r)) \/ UNCHANGED quotaVars
    BY <1>4 DEF ReportFailureToQuota, ReportStreamErrorToQuota
  <2> QED
    BY <2>1 DEF QuotaRecordExceeded, quotaVars
<1>5. ASSUME NEW r \in Requests, PassQuotaGate(r) \/ StopAtQuotaGate(r) PROVE used' = used
  BY <1>5 DEF PassQuotaGate, StopAtQuotaGate, QuotaUntracked, QuotaAllow, QuotaProbe,
              QuotaBlockCooldown, QuotaBlockLimited, quotaVars
<1>6. ASSUME NEW r \in Requests,
             \/ Start(r) \/ SkipUnavailable(r) \/ PassHealthGate(r) \/ StopAtHealthGate(r)
             \/ CallSucceeds(r) \/ CallFails(r) \/ ReportFailureToHealth(r)
             \/ ReportSuccessToHealth(r) \/ RecordSuccess(r) \/ StreamErrorEvent(r)
             \/ ReportStreamErrorToHealth(r) \/ StreamCloses(r) \/ StreamAborts(r)
             \/ ClientCancels(r)
      PROVE  used' = used
  BY <1>6 DEF Start, SkipUnavailable, PassHealthGate, StopAtHealthGate, CallSucceeds, CallFails,
              ReportFailureToHealth, ReportSuccessToHealth, RecordSuccess, StreamErrorEvent,
              ReportStreamErrorToHealth, StreamCloses, StreamAborts, ClientCancels, quotaVars
<1>7. CASE Tick \/ UNCHANGED vars
  BY <1>0, <1>7 DEF Tick, QuotaTick, vars, quotaVars
<1> QED
  BY <1>0, <1>2, <1>3, <1>4, <1>5, <1>6, <1>7 DEF Next, Proceed

(* However requests, 429s, cooldown probes, fallbacks, stream endings and  *)
(* the clock interleave, the usage an outbound's window records stays      *)
(* below its limit plus the number of concurrent requests.                 *)
THEOREM Overshoot == Spec => []OvershootBounded
<1> DEFINE Inv == LedgerShape /\ ChargeBudget /\ UntrackedUnused
<1>1. Init => Inv
  <2> SUFFICES ASSUME Init PROVE Inv
    OBVIOUS
  <2>1. LedgerShape
    BY DEF Init, LedgerShape, ShapeOf, Finished
  <2>2. UntrackedUnused
    BY DEF Init, QuotaInit, UntrackedUnused
  <2>3. ASSUME NEW o \in QuotaSubjects
        PROVE  used[o] + Cardinality(InFlight(o)) + ProbeAllowance(o)
                 <= MaxRequests - 1 + Cardinality(Requests)
    <3>1. used[o] = 0 /\ ProbeAllowance(o) = 0
      BY SMT, QuotaAssumption DEF Init, QuotaInit, ProbeAllowance, InCooldown
    <3>2. InFlight(o) \in SUBSET Requests
      BY FlightType
    <3> QED
      BY SMT, <3>1, <3>2, SubsetCard, QuotaAssumption
  <2> QED
    BY <2>1, <2>2, <2>3 DEF ChargeBudget
<1>2. TypeOK /\ TypeOK' /\ Inv /\ [Next]_vars => Inv'
  BY ShapeStep, BudgetStep, UntrackedStep
<1>3. TypeOK /\ Inv => OvershootBounded
  <2> SUFFICES ASSUME TypeOK, Inv, NEW o \in Outbounds
               PROVE  used[o] <= MaxRequests - 1 + Cardinality(Requests)
    BY DEF OvershootBounded
  <2>1. CASE o \in QuotaSubjects
    BY SMT, <2>1, BudgetType DEF ChargeBudget
  <2>2. CASE o \notin QuotaSubjects
    BY SMT, <2>2, BudgetType DEF UntrackedUnused
  <2> QED
    BY <2>1, <2>2
<1> HIDE DEF Inv
<1> QED
  BY <1>1, <1>2, <1>3, TypeCorrect, PTL DEF Spec
=============================================================================
