SPECIFICATION FairSpec
CONSTANTS
  r1 = r1
  r2 = r2
  r3 = r3
  Requests = {r1, r2}
  Inputs <- InputsLoops
  Score <- MCScore
  Threshold = 1
  ModelAliases <- MCAliases
  DefaultModel = "m1"
  NoModel = NoModel
  NoScope = NoScope
  NoContext = NoContext
  Ttl = 0
  Crunchable = {"c1"}
  CacheMode = "both"
  ExactCapacity = 2
  VectorCapacity = 2
  EnableSlm = TRUE
  EnableDedup = TRUE
  EnableMinify = TRUE
  OfflineMode = FALSE
  MaxAttempts = 2
  MaxTime = 1
INVARIANTS OwnFormat HealthAccounts
PROPERTIES UpstreamDiscipline RepeatsDeflected EveryRequestEnds
