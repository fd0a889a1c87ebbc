SPECIFICATION Spec
CONSTANTS
  Records = {u1, u2, u3}
  QueueSize = 2
  WriteBufferRecords = 1
  RotateLines = 9
  RetentionDays = 1
  MaxDay = 0
  MaxPart = 1
  MaxStarts = 3
  Crashes = FALSE
  TornWrites = FALSE
  DiskErrors = FALSE
  Torn = Torn
  Bad = Bad
INVARIANT CountedOnce
CHECK_DEADLOCK FALSE
