SPECIFICATION ScenarioSpec
CONSTANTS
  c1 = c1
  c2 = c2
  c3 = c3
  Calls = {c1, c2, c3}
  MinConcurrency = 1
  MaxConcurrency = 2
  TargetLatency = 2
  Durations = {1, 3}
  WindowSize = 10
  U64 = 32
INVARIANTS InFlightExact AdmissionBounded
PROPERTIES OutlierTolerated Recovers
