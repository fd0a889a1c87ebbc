SPECIFICATION Spec
CONSTANTS
  LeaseTTL = 3
  TransientTTL = 1
  Retention = 1
  NoSession = NoSession
  HookEvents <- MCHookEvents
  Capability = {TRUE, FALSE}
  MaxFaults = 2
  MaxRestarts = 1
  None = None
INVARIANTS SnapshotInSync NoFalseStop
PROPERTIES StoppedIsFinal DeadAgentsStop LiveAgentReturns
