SPECIFICATION Spec
CONSTANTS
  r1 = r1
  r2 = r2
  r3 = r3
  Requests = {r1, r2, r3}
  Prompts = {1, 2, 3}
  NoScope = NoScope
  Capacity = 1
  Score <- MCScore
  Threshold = 1
  Ttl = 0
  MinConcurrency = 1
  MaxConcurrency = 2
  TargetLatency = 2
  Durations = {3}
  WindowSize = 1
  U64 = 32
SYMMETRY Symmetry
INVARIANTS HitsAreOneHop PermitsGivenBack
