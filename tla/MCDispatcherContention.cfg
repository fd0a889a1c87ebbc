SPECIFICATION Spec
CONSTANTS
  o1 = o1
  o2 = o2
  Outbounds = {o1}
  QuotaSubjects = {o1}
  Requests = {r1, r2, r3}
  Plans <- OnePlan
  Replies <- RecoverableReplies
  Cancels = FALSE
  FailureThreshold = 2
  HealthProbeInterval = 1
  MaxRequests = 2
  Cooldown = 2
  QuotaProbeInterval = 1
SYMMETRY RequestSymmetry
INVARIANTS TypeOK OvershootBounded
