SPECIFICATION Spec
CONSTANTS
  o1 = o1
  o2 = o2
  Outbounds = {o1, o2}
  QuotaSubjects = {o1}
  Requests = {r1}
  Plans <- FallbackPlans
  Replies <- AllReplies
  Cancels = TRUE
  FailureThreshold = 2
  HealthProbeInterval = 1
  MaxRequests = 2
  Cooldown = 2
  QuotaProbeInterval = 1
INVARIANTS SettledOnce ReturnsPreferredError
