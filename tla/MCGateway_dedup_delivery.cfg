SPECIFICATION Spec
CONSTANTS
  r1 = r1
  r2 = r2
  r3 = r3
  Requests = {r1, r2}
  Inputs <- InputsSession
  Score <- MCScore
  Threshold = 1
  ModelAliases <- MCAliases
  DefaultModel = "m1"
  NoModel = NoModel
  NoScope = NoScope
  NoContext = NoContext
  Ttl = 0
  Crunchable = {}
  CacheMode = "both"
  ExactCapacity = 1
  VectorCapacity = 1
  EnableSlm = FALSE
  EnableDedup = TRUE
  EnableMinify = FALSE
  OfflineMode = FALSE
  MaxAttempts = 1
  MaxTime = 0
SYMMETRY Symmetry
INVARIANTS ReferenceAfterDelivery
