SPECIFICATION FairSpec
CONSTANTS
  Records = {u1, u2}
  QueueSize = 1
  WriteBufferRecords = 2
  RotateLines = 1
  RetentionDays = 1
  MaxDay = 2
  MaxPart = 2
  MaxStarts = 3
  Crashes = FALSE
  TornWrites = FALSE
  DiskErrors = FALSE
  Torn = Torn
  Bad = Bad
INVARIANT RecordedStaysCounted
PROPERTY QueuedReachesDisk
CHECK_DEADLOCK FALSE
