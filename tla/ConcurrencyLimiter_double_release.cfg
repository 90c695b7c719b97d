SPECIFICATION Spec
CONSTANTS
  Calls = {c1, c2}
  MinConcurrency = 1
  MaxConcurrency = 2
  TargetLatency = 2
  Durations = {1, 3}
  WindowSize = 1
  U64 = 32
INVARIANTS InFlightExact
