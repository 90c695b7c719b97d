--------------------------- MODULE MCConnectProxy ---------------------------
(***************************************************************************)
(* Instances of ConnectProxy for TLC.  Texts with the same instructions    *)
(* and the same question are similar, whatever surface embedded them.      *)
(***************************************************************************)
EXTENDS ConnectProxy, TLC

CONSTANTS c1, c2, c3

Conn(kind, route, ctx, question, tooling, model) ==
  [kind |-> kind, route |-> route, scope |-> NoScope, form |-> "messages",
   sys |-> IF ctx = NoContext THEN "none" ELSE "text", ctx |-> ctx,
   question |-> question, tooling |-> tooling, model |-> model]

MCScore(a, b) ==
  IF a = b THEN 2
  ELSE IF a.ctx = b.ctx /\ a.question = b.question THEN 1 ELSE 0

MCAliases == [fast |-> "m1"]

\* The same question to both endpoints and, under an alias, to the gateway; a
\* third key, one more than the cache holds; the rest of what a listener meets.
InputsShared ==
  { Conn("chat", "openai", NoContext, "q1", FALSE, "m1"),
    Conn("chat", "anthropic", NoContext, "q1", FALSE, "m1"),
    Conn("gateway", "openai", NoContext, "q1", FALSE, "fast"),
    Conn("gateway", "openai", NoContext, "q2", FALSE, "m1"),
    Conn("empty", "openai", NoContext, "", FALSE, "m1"),
    Conn("pass", "openai", NoContext, "q1", FALSE, "m1"),
    Conn("tunnel", "openai", NoContext, "q1", FALSE, "m1"),
    Conn("bad", "openai", NoContext, "q1", FALSE, "m1") }

Symmetry == Permutations(Connections)
=============================================================================
