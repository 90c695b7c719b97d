----------------------------- MODULE CacheKeys ------------------------------
(***************************************************************************)
(* What identifies a request to the caches.  A request is a record         *)
(*   route    the endpoint: a chat route, or the MCP "lookup" and "store"  *)
(*   scope    the session cache scope, or NoScope                          *)
(*   form     the body: "messages", "prompt" ({"prompt": p}) or "text"     *)
(*            (not JSON)                                                   *)
(*   sys      how instructions are given: "none", "text" (a system string  *)
(*            or message) or "blocks" (a top-level array of content blocks) *)
(*   ctx      the instructions (NoContext when sys is "none")              *)
(*   question the last user message                                        *)
(*   tooling  whether tools, functions or tool turns are present           *)
(*   model    the model named in the body, or NoModel                      *)
(* SHA-256 is taken to be injective: a key is the tuple that is hashed.    *)
(***************************************************************************)
CONSTANTS ModelAliases,   \* function: alias -> model (config.model_aliases)
          DefaultModel,   \* configured_model_id()
          NoModel, NoScope, NoContext

\* No request is ever answered by "no model".
ASSUME ModelsAssumption ==
  /\ DefaultModel # NoModel
  /\ \A m \in DOMAIN ModelAliases : ModelAliases[m] # NoModel

ChatRoutes == {"native", "openai", "anthropic"}
McpRoutes  == {"lookup", "store"}

ResolveModelAlias(m) == IF m \in DOMAIN ModelAliases THEN ModelAliases[m] ELSE m

\* The model a chat request is answered with.
ResolvedModel(q) ==
  IF q.model = NoModel \/ q.form = "text" THEN DefaultModel
  ELSE ResolveModelAlias(q.model)

\* Mutant: one namespace for all endpoints.
MutantCacheNs(q) == "native"

\* The response format an entry is kept under.
CacheNs(q) == IF q.route \in {"openai", "anthropic"} THEN q.route ELSE "native"

\* extract_cache_key of the canonical body.  A JSON body carries the resolved
\* model; a plain-text body cannot, and neither do the MCP handlers, which key
\* on the bare prompt.  Instructions given as blocks are not part of the text.
Material(q) ==
  [form     |-> IF q.form = "messages" THEN "messages" ELSE "prompt",
   ctx      |-> IF q.sys = "text" THEN q.ctx ELSE NoContext,
   question |-> q.question,
   tooling  |-> q.tooling,
   model    |-> IF q.route \in McpRoutes \/ q.form = "text" THEN NoModel
                ELSE ResolvedModel(q)]

ExactKey(q) == [ns |-> CacheNs(q), scope |-> q.scope, material |-> Material(q)]

\* The text that is embedded: the namespace, the model line (chat routes
\* only) and the last user message.
SemanticInput(q) ==
  [ns       |-> CacheNs(q),
   model    |-> IF q.route \in McpRoutes THEN NoModel ELSE ResolvedModel(q),
   question |-> q.question]

\* Semantic matching is off for Anthropic and for requests with tools.
SemanticCacheEnabled(q) ==
  q.route \in McpRoutes \/ (q.route # "anthropic" /\ ~q.tooling)
=============================================================================
