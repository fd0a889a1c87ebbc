SPECIFICATION Spec
CONSTANTS
  Redacted = Redacted
  None = None
  Star = Star
  ClientSpecs <- MCClientSpecs
  BindingSpecs <- MCBindingSpecs
  ProviderSpecs <- MCProviderSpecs
  RouteSpecs <- MCRouteSpecs
  InitialConfig <- MCInitial
  InitialHistories <- MCHistories
  Submitted <- MCSubmitted
  Listeners = 2
  HistoryLimit = 2
  MaxOps = 2
  MaxFaults = 2
  MaxCrashes = 1
  Requests = {q1, q2}
  Model = m
SYMMETRY RequestSymmetry
INVARIANTS FileLoads ServedAgrees ClientOvershoot
PROPERTIES AllOrNothing ReferencesKept
