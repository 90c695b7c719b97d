SPECIFICATION Spec
CONSTANTS
  c1 = c1
  c2 = c2
  c3 = c3
  Connections = {c1, c2, c3}
  Inputs <- InputsShared
  Score <- MCScore
  Threshold = 1
  Ttl = 0
  ModelAliases <- MCAliases
  DefaultModel = "m1"
  NoModel = NoModel
  NoScope = NoScope
  NoContext = NoContext
  CacheMode = "both"
  ExactCapacity = 2
  VectorCapacity = 1
  EnableSlm = TRUE
  OfflineMode = FALSE
  LogCapacity = 2
  MaxTime = 1
SYMMETRY Symmetry
INVARIANTS TypeOK AnswersJustified StoredForOwner DecisionsOnce AnsweredIsKept
PROPERTIES ImplementsDeflection
