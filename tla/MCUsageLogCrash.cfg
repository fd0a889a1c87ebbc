SPECIFICATION Spec
CONSTANTS
  Records = {u1, u2, u3}
  QueueSize = 1
  WriteBufferRecords = 2
  RotateLines = 9
  RetentionDays = 1
  MaxDay = 0
  MaxPart = 2
  MaxStarts = 3
  Crashes = TRUE
  TornWrites = FALSE
  DiskErrors = TRUE
  Torn = Torn
  Bad = Bad
SYMMETRY RecordSymmetry
INVARIANTS DurableCounted LoggedOnce
CHECK_DEADLOCK FALSE
