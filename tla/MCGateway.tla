----------------------------- MODULE MCGateway ------------------------------
(***************************************************************************)
(* Instances of Gateway for TLC.  Two questions are similar when they are  *)
(* both paraphrases of "q1"; texts of different namespaces or models are   *)
(* not, which is what the embedder is hoped to do.                         *)
(***************************************************************************)
EXTENDS Gateway, TLC

CONSTANTS r1, r2, r3

Req(route, scope, form, sys, ctx, question, tooling, model) ==
  [route |-> route, scope |-> scope, form |-> form, sys |-> sys, ctx |-> ctx,
   question |-> question, tooling |-> tooling, model |-> model]

Paraphrases == {"q1", "q1bis"}

MCScore(a, b) ==
  IF a = b THEN 2
  ELSE IF a.ns = b.ns /\ a.model = b.model /\ {a.question, b.question} \subseteq Paraphrases
         THEN 1 ELSE 0

MCAliases == [fast |-> "m1"]

\* A plain chat, a paraphrase by alias, the same question in a session.
InputsBoth ==
  { Req("native", NoScope, "prompt", "none", NoContext, "q1", FALSE, "m1"),
    Req("native", NoScope, "prompt", "none", NoContext, "q1bis", FALSE, "fast"),
    Req("native", "s1", "prompt", "none", NoContext, "q1", FALSE, "m1") }

\* MCP clients and a gateway client that sends plain text.
InputsMcp ==
  { Req("store", NoScope, "prompt", "none", NoContext, "q1", FALSE, NoModel),
    Req("lookup", NoScope, "prompt", "none", NoContext, "q1bis", FALSE, NoModel),
    Req("lookup", "s1", "prompt", "none", NoContext, "q1", FALSE, NoModel),
    Req("native", NoScope, "text", "none", NoContext, "q1", FALSE, NoModel),
    Req("native", NoScope, "prompt", "none", NoContext, "q1", FALSE, NoModel) }

\* Agents that repeat themselves through every endpoint, with and without tools.
InputsLoops ==
  { Req("native", "s1", "messages", "text", "c1", "q1", FALSE, "m1"),
    Req("openai", "s1", "messages", "text", "c1", "q1", FALSE, "fast"),
    Req("openai", "s1", "messages", "text", "c1", "q1", TRUE, "m1"),
    Req("anthropic", "s1", "messages", "blocks", "c1", "q1", FALSE, "m1") }

\* Two turns of one session with the same instructions.
InputsSession ==
  { Req("openai", "s1", "messages", "text", "c1", "q1", FALSE, "m1"),
    Req("openai", "s1", "messages", "text", "c1", "q2", FALSE, "m1") }

Symmetry == Permutations(Requests)
=============================================================================
