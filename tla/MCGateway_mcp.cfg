SPECIFICATION Spec
CONSTANTS
  r1 = r1
  r2 = r2
  r3 = r3
  Requests = {r1, r2, r3}
  Inputs <- InputsMcp
  Score <- MCScore
  Threshold = 1
  ModelAliases <- MCAliases
  DefaultModel = "m1"
  NoModel = NoModel
  NoScope = NoScope
  NoContext = NoContext
  Ttl = 0
  Crunchable = {}
  CacheMode = "semantic"
  ExactCapacity = 1
  VectorCapacity = 1
  EnableSlm = TRUE
  EnableDedup = FALSE
  EnableMinify = FALSE
  OfflineMode = TRUE
  MaxAttempts = 1
  MaxTime = 0
SYMMETRY Symmetry
PROPERTIES ImplementsDeflection
