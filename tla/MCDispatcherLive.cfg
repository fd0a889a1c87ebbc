SPECIFICATION FairSpec
CONSTANTS
  o1 = o1
  o2 = o2
  Outbounds = {o1}
  QuotaSubjects = {o1}
  Requests = {r1, r2}
  Plans <- OnePlan
  Replies <- MixedReplies
  Cancels = TRUE
  FailureThreshold = 2
  HealthProbeInterval = 2
  MaxRequests = 1
  Cooldown = 2
  QuotaProbeInterval = 1
PROPERTIES QuotaAdmitsAgain HealthClosedOnlyByProbe
