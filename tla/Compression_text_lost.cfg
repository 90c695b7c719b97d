SPECIFICATION CompressionSpec
CONSTANTS
  LineKinds = {"text", "blank", "rule", "comment", "open", "close", "opening", "closing", "trailed", "framed"}
  MaxTextLines = 2
  Marked = {TRUE}
  Sessions = {"none"}
  MaxTurns = 1
  Dedup = TRUE
  Minify = TRUE
INVARIANT NothingSaidIsLost
CHECK_DEADLOCK FALSE
