SPECIFICATION Spec
CONSTANTS
  Records = {u1, u2, u3}
  QueueSize = 1
  WriteBufferRecords = 1
  RotateLines = 1
  RetentionDays = 1
  MaxDay = 0
  MaxPart = 3
  MaxStarts = 3
  Crashes = TRUE
  TornWrites = FALSE
  DiskErrors = FALSE
  Torn = Torn
  Bad = Bad
SYMMETRY RecordSymmetry
INVARIANT DurableCounted
CHECK_DEADLOCK FALSE
