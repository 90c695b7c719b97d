SPECIFICATION ConfigSpec
CONSTANTS
  Providers = {"openai", "compat", "copilot"}
  Commands = {"c1"}
  Secret = ""
INVARIANT ExportedKeysGoHome
CHECK_DEADLOCK FALSE
