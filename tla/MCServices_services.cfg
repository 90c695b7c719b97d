SPECIFICATION ServicesSpec
CONSTANTS
  Posts = {p1, p2}
  Batches <- MCBatches
  Lines <- MCLines
  MaxLines = 1
  MaxSessions = 1
  MaxRestarts = 1
  Pids = {1, 2}
  MaxStarts = 3
  MaxPolls = 1
  FirstRun = TRUE
  Forced = {TRUE, FALSE}
  DryRuns = {TRUE, FALSE}
  Proxied = {TRUE, FALSE}
  Providers = {"compat", "copilot"}
  Commands = {"c1", "c2"}
  Secret = "openai"
  ExpiresIn = 2
  SkipValidation = {TRUE, FALSE}
  Requests = {r1, r2}
  Surfaces = {"gateway", "mcp", "proxy"}
  Attempts = 2
  Recent = 2
  Exchanges = {e1, e2}
  FullAt = 2
  Rotations = 2
  Endpoints = {"openai", "anthropic"}
  Tooling = {TRUE, FALSE}
  Texts = {"t"}
  LineKinds = {"text", "blank", "rule", "comment", "open", "close", "opening", "closing", "trailed", "framed"}
  MaxTextLines = 3
  Marked = {TRUE, FALSE}
  Sessions = {"none", "s1"}
  MaxTurns = 2
  Dedup = TRUE
  Minify = TRUE
  Callers = {"q1", "q2"}
  ClassifyTokens = 2
  AnswerTokens = 3
INVARIANTS ServicesTypeOK BatchAnswered ToldIsTrue ServerFindable BinaryKept KeyGoesHome CountsAgree LoggedOnce FollowNeverRepeats FormAsAsked CompressionKeeps OwnContext
PROPERTIES CommandsReturn ServicesAnswer
CHECK_DEADLOCK FALSE
