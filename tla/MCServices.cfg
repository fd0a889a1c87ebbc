SPECIFICATION Spec
CONSTANTS
  Star = Star
  NoPlan = NoPlan
  Models <- MCModels
  RouterConfigs <- MCRouterConfigs
  StreamCases <- MCStreamCases
  c1 = c1
  c2 = c2
  p1 = p1
  p2 = p2
  Callers = {c1, c2}
  Pollers = {p1, p2}
  Flows = {1}
  MaxTokens = 3
  MaxLost = 1
  NoCredential = NoCredential
  Midnight <- MCMidnight
  ClockTime <- MCClockTime
  Clock <- MCClock
  Days <- MCDays
  QuotaConfigs <- MCQuotaConfigs
  Amounts <- MCAmounts
  StartTime = 1
  MaxTime = 4
  Horizon = 10
  MaxEvents = 2
  MaxChanges = 2
  NoSnapshot = NoSnapshot
  Inodes = {1, 2, 3, 4, 5}
  MaxUsage = 1
  MaxLives = 2
  NoFile = 0
  MaxSize = 1
  MaxFiles = 1
  MaxTotalSize = 2
  MaxAge = 1
  TicksPerDay = 2
  LastTick = 2
  MaxRecords = 3
  MaxLogFaults = 1
  RecentAge = 2
  RecentBytes = 4
  Chunks <- MCChunks
  RecentLastTick = 4
  MaxLines = 3
  StreamBuffer = 2
  Asked <- MCAsked
  Answers <- MCAnswers
  KeyCount = 2
  KeyCalls = {1, 2}
  UsageRecords <- MCUsageRecords
  BuiltInPrices <- MCBuiltInPrices
  Prices <- MCPrices
  BaseName <- MCBaseName
  WeekOf <- MCWeekOf
  MonthOf <- MCMonthOf
  LastDay = 3
  RecentLimit = 2
  MaxUsageRecords = 3
INVARIANTS
  PlanAsConfigured
  RoundRobinFair
  UsedOnce
  TimesAreRight
  SavesAreAtomic
  LogIsKept
  CoveredIsComplete
  DeliveredWhole
  FramesInOrder
  AccountedAsTold
  RequestCarried
  AnswerCarried
  QuotaOnlyIfAllSpent
  StatsAreSums
PROPERTIES
  DeletedStaysDeleted
  CredentialInTheEnd
  QuotaImplementsIdeal
  CompressedInTheEnd
  HandlerReturns
CHECK_DEADLOCK FALSE
