------------------------------ MODULE Gateway -------------------------------
(***************************************************************************)
(* The deflection stack: concurrent requests pass through Layer 1 (exact   *)
(* cache, then semantic cache), Layer 2 (local SLM), Layer 2.5 (context    *)
(* optimiser) and Layer 3 (cloud LLM with retries and stale fallback); the *)
(* cache layer captures what comes back.  The MCP cache lookup and store   *)
(* handlers share the same caches.                                         *)
(*                                                                         *)
(* A step of a request is the code between two awaits.  Between two steps  *)
(* other requests run, and the client may disconnect, which drops the      *)
(* request's future (Cancel).                                              *)
(***************************************************************************)
EXTENDS Naturals, Sequences, FiniteSets, LruCache, SemanticStore, CacheKeys

CONSTANTS
  Requests,          \* request identities; each is used once
  Inputs,            \* the requests clients send (records, see CacheKeys)
  Crunchable,        \* instructions that minification shortens
  CacheMode,         \* "exact", "semantic" or "both"
  ExactCapacity,     \* cache_max_capacity of the LRU
  VectorCapacity,    \* cache_max_capacity of the vector cache
  EnableSlm,         \* enable_slm_router
  EnableDedup,       \* enable_context_optimizer and context_optimizer_dedup
  EnableMinify,      \* enable_context_optimizer and context_optimizer_minify
  OfflineMode,       \* offline_mode
  MaxAttempts,       \* RetryConfig::cloud_llm().max_attempts
  MaxTime            \* bound on the clock

Forms  == {"messages", "prompt", "text"}
Scopes == {q.scope : q \in Inputs} \cup {NoScope}
Contexts == {q.ctx : q \in Inputs} \cup {NoContext}

\* A body that is not a message list has neither instructions nor tools.
ASSUME InputsAssumption ==
  \A q \in Inputs :
    /\ q.route \in ChatRoutes \cup McpRoutes
    /\ q.form \in Forms
    /\ q.sys \in {"none", "text", "blocks"}
    /\ q.tooling \in BOOLEAN
    /\ q.form # "messages" => q.sys = "none" /\ ~q.tooling
    /\ q.sys = "none" <=> q.ctx = NoContext
    /\ q.route \in McpRoutes => q.form = "prompt" /\ q.model = NoModel

\* Capacity 0 is replaced by 128 for the LRU and makes the vector cache panic.
ASSUME BoundsAssumption ==
  /\ CacheMode \in {"exact", "semantic", "both"}
  /\ ExactCapacity \in Nat \ {0}
  /\ VectorCapacity \in Nat \ {0}
  /\ MaxAttempts \in Nat \ {0}
  /\ MaxTime \in Nat
  /\ Ttl \in Nat
  /\ {EnableSlm, EnableDedup, EnableMinify, OfflineMode} \subseteq BOOLEAN

VARIABLES
  pc,          \* where each request is
  in,          \* its input, once it has arrived
  attempts,    \* upstream calls it has made
  sent,        \* what the optimiser made of its body: "asis", "crunched", "ref"
  vec,         \* whether it holds an embedding of its semantic input
  outcome,     \* what its retry loop ended with: "none", "ok", "failed"
  reply,       \* the response it is carrying, then the one it was answered with
  exact,       \* Layer 1a
  vectors,     \* Layer 1b
  inserts,     \* number of vector-cache insertions so far
  now,         \* the clock
  seen,        \* InstructionCache: session scope -> last instructions
  delivered,   \* history: <<scope, ctx>> an answered upstream call carried
  health       \* provider health counters

local   == <<pc, in, attempts, sent, vec, outcome, reply>>
caches  == <<exact, vectors, inserts>>
vars == <<pc, in, attempts, sent, vec, outcome, reply, exact, vectors, inserts,
          now, seen, delivered, health>>

PCs == {"idle", "exact", "embed", "search", "classify", "slm", "optimize",
        "dispatch", "await", "backoff", "fallback", "capture", "insert",
        "store", "store_embed", "done", "cancelled"}

Answers == [origin : Requests, by : {"slm", "cloud", "mcp", "error"}]
NoBody   == [origin |-> "none", by |-> "none"]
NoReply  == [status |-> 0, layer |-> "none", body |-> NoBody]
NotFound == [status |-> 204, layer |-> "none", body |-> NoBody]
Response(status, layer, r, by) ==
  [status |-> status, layer |-> layer, body |-> [origin |-> r, by |-> by]]
Served(layer, answer) == [status |-> 200, layer |-> layer, body |-> answer]

IsMcp(r)   == in[r].route \in McpRoutes
Arrived(r) == pc[r] # "idle"

\* The MCP handlers use both caches whatever the mode.
UsesExact(r) == IsMcp(r) \/ CacheMode \in {"exact", "both"}
UsesSemantic(r) ==
  IsMcp(r) \/ (SemanticCacheEnabled(in[r]) /\ CacheMode \in {"semantic", "both"})

Goto(r, label) == pc' = [pc EXCEPT ![r] = label]
Answer(r, response) == reply' = [reply EXCEPT ![r] = response]

\* The layers missed: 204 for an MCP lookup, Layer 2 for a chat request.
LeaveCaches(r) ==
  IF IsMcp(r)
    THEN Goto(r, "done") /\ Answer(r, NotFound)
    ELSE Goto(r, "classify") /\ UNCHANGED reply

Init ==
  /\ pc = [r \in Requests |-> "idle"]
  /\ in \in [Requests -> Inputs]
  /\ attempts = [r \in Requests |-> 0]
  /\ sent = [r \in Requests |-> "asis"]
  /\ vec = [r \in Requests |-> FALSE]
  /\ outcome = [r \in Requests |-> "none"]
  /\ reply = [r \in Requests |-> NoReply]
  /\ exact = <<>> /\ vectors = {} /\ inserts = 0 /\ now = 0
  /\ seen = [s \in Scopes \ {NoScope} |-> NoContext]
  /\ delivered = {}
  /\ health = [requests |-> 0, errors |-> 0]

Arrive(r) ==
  /\ pc[r] = "idle"
  /\ Goto(r, IF in[r].route = "store" THEN "store" ELSE "exact")
  /\ UNCHANGED <<in, attempts, sent, vec, outcome, reply, caches, now, seen,
                 delivered, health>>

-----------------------------------------------------------------------------
(* Layer 1, on the way in.                                                 *)

ExactHit(r) ==
  /\ pc[r] = "exact" /\ UsesExact(r)
  /\ Cached(exact, ExactKey(in[r]))
  /\ Answer(r, Served("l1a", CachedValue(exact, ExactKey(in[r]))))
  /\ exact' = Promote(exact, ExactKey(in[r]))
  /\ Goto(r, "done")
  /\ UNCHANGED <<in, attempts, sent, vec, outcome, vectors, inserts, now, seen,
                 delivered, health>>

ExactMiss(r) ==
  /\ pc[r] = "exact"
  /\ UsesExact(r) => ~Cached(exact, ExactKey(in[r]))
  /\ IF UsesSemantic(r) THEN Goto(r, "embed") /\ UNCHANGED reply
                        ELSE LeaveCaches(r)
  /\ UNCHANGED <<in, attempts, sent, vec, outcome, caches, now, seen, delivered,
                 health>>

\* The embedding runs on the blocking pool and may fail.
Embed(r) ==
  /\ pc[r] = "embed"
  /\ \/ /\ vec' = [vec EXCEPT ![r] = TRUE]
        /\ Goto(r, "search")
        /\ UNCHANGED reply
     \/ /\ LeaveCaches(r)
        /\ UNCHANGED vec
  /\ UNCHANGED <<in, attempts, sent, outcome, caches, now, seen, delivered, health>>

Match(r) == BestMatch(vectors, SemanticInput(in[r]), in[r].scope, now)

SemanticHit(r) ==
  /\ pc[r] = "search"
  /\ \E e \in Match(r) : Answer(r, Served("l1b", e.answer))
  /\ Goto(r, "done")
  /\ UNCHANGED <<in, attempts, sent, vec, outcome, caches, now, seen, delivered,
                 health>>

SemanticMiss(r) ==
  /\ pc[r] = "search"
  /\ Match(r) = {}
  /\ LeaveCaches(r)
  /\ UNCHANGED <<in, attempts, sent, vec, outcome, caches, now, seen, delivered,
                 health>>

-----------------------------------------------------------------------------
(* Layer 2 and Layer 2.5.                                                  *)

\* The classifier calls the request deflectable.
Deflectable(r) ==
  /\ pc[r] = "classify" /\ EnableSlm
  /\ Goto(r, "slm")
  /\ UNCHANGED <<in, attempts, sent, vec, outcome, reply, caches, now, seen,
                 delivered, health>>

\* The answer passes the quality guard: the request never leaves the machine.
SlmAnswer(r) ==
  /\ pc[r] = "slm"
  /\ Answer(r, Response(200, "l2", r, "slm"))
  /\ Goto(r, "capture")
  /\ UNCHANGED <<in, attempts, sent, vec, outcome, caches, now, seen, delivered,
                 health>>

\* Layer 2 is off, unreachable, says COMPLEX, or its answer is rejected.
FallThrough(r) ==
  /\ pc[r] \in {"classify", "slm"}
  /\ Goto(r, "optimize")
  /\ UNCHANGED <<in, attempts, sent, vec, outcome, reply, caches, now, seen,
                 delivered, health>>

\* InstructionCache.check_and_update: a session keeps its last instructions.
Repeats(r) ==
  EnableDedup /\ in[r].scope # NoScope /\ seen[in[r].scope] = in[r].ctx

Optimize(r) ==
  /\ pc[r] = "optimize"
  /\ IF in[r].ctx = NoContext
       THEN UNCHANGED <<sent, seen>>
       ELSE /\ sent' = [sent EXCEPT ![r] =
                 IF Repeats(r) THEN "ref"
                 ELSE IF EnableMinify /\ in[r].ctx \in Crunchable THEN "crunched"
                 ELSE "asis"]
            /\ seen' = IF EnableDedup /\ in[r].scope # NoScope
                         THEN [seen EXCEPT ![in[r].scope] = in[r].ctx] ELSE seen
  /\ Goto(r, "dispatch")
  /\ UNCHANGED <<in, attempts, vec, outcome, reply, caches, now, delivered, health>>

-----------------------------------------------------------------------------
(* Layer 3.                                                                *)

\* The request is answered here without an upstream call: 503 in offline mode,
\* 400 for a tool request whose body is not a valid OpenAI request.
Refuse(r) ==
  /\ pc[r] = "dispatch"
  /\ \/ /\ OfflineMode
        /\ Answer(r, Response(503, "none", r, "error"))
     \/ /\ ~OfflineMode /\ in[r].route = "openai" /\ in[r].tooling
        /\ Answer(r, Response(400, "l3", r, "error"))
  /\ Goto(r, "capture")
  /\ UNCHANGED <<in, attempts, sent, vec, outcome, caches, now, seen, delivered,
                 health>>

\* Mutant: the attempt is not counted.
MutantCallUncounted(r) ==
  /\ \/ pc[r] = "dispatch" /\ ~OfflineMode
     \/ pc[r] = "backoff"
  /\ Goto(r, "await")
  /\ UNCHANGED <<in, attempts, sent, vec, outcome, reply, caches, now, seen,
                 delivered, health>>

\* The first attempt, or the next one after the back-off sleep.
CallUpstream(r) ==
  /\ \/ pc[r] = "dispatch" /\ ~OfflineMode
     \/ pc[r] = "backoff"
  /\ attempts' = [attempts EXCEPT ![r] = @ + 1]
  /\ Goto(r, "await")
  /\ UNCHANGED <<in, sent, vec, outcome, reply, caches, now, seen, delivered, health>>

UpstreamOk(r) ==
  /\ pc[r] = "await"
  /\ outcome' = [outcome EXCEPT ![r] = "ok"]
  /\ health' = [requests |-> health.requests + 1, errors |-> health.errors]
  /\ delivered' = IF in[r].sys = "text" /\ sent[r] # "ref"
                    THEN delivered \cup {<<in[r].scope, in[r].ctx>>} ELSE delivered
  /\ Answer(r, Response(200, "l3", r, "cloud"))
  /\ Goto(r, "capture")
  /\ UNCHANGED <<in, attempts, sent, vec, caches, now, seen>>

\* Mutant: one attempt too many.
MutantUpstreamRetryable(r) ==
  /\ pc[r] = "await" /\ attempts[r] <= MaxAttempts
  /\ Goto(r, "backoff")
  /\ UNCHANGED <<in, attempts, sent, vec, outcome, reply, caches, now, seen,
                 delivered, health>>

\* A retryable error with attempts left: sleep.
UpstreamRetryable(r) ==
  /\ pc[r] = "await" /\ attempts[r] < MaxAttempts
  /\ Goto(r, "backoff")
  /\ UNCHANGED <<in, attempts, sent, vec, outcome, reply, caches, now, seen,
                 delivered, health>>

\* Mutant: a failure that the stale fallback will hide is not recorded.
MutantUpstreamFailed(r) ==
  /\ pc[r] = "await"
  /\ outcome' = [outcome EXCEPT ![r] = "failed"]
  /\ health' = IF Cached(exact, ExactKey(in[r])) THEN health
               ELSE [requests |-> health.requests + 1, errors |-> health.errors + 1]
  /\ Goto(r, "fallback")
  /\ UNCHANGED <<in, attempts, sent, vec, reply, caches, now, seen, delivered>>

\* A fatal error, or a retryable one on the last attempt.
UpstreamFailed(r) ==
  /\ pc[r] = "await"
  /\ outcome' = [outcome EXCEPT ![r] = "failed"]
  /\ health' = [requests |-> health.requests + 1, errors |-> health.errors + 1]
  /\ Goto(r, "fallback")
  /\ UNCHANGED <<in, attempts, sent, vec, reply, caches, now, seen, delivered>>

\* chat_handler looks up the native key of the body it received, which the
\* optimiser may have rewritten; nothing is ever stored under the legacy key.
\* The OpenAI and Anthropic handlers have no fallback.
FallbackFinds(r) ==
  /\ in[r].route = "native"
  /\ sent[r] = "asis" \/ in[r].sys = "blocks"
  /\ Cached(exact, ExactKey(in[r]))

StaleFallback(r) ==
  /\ pc[r] = "fallback"
  /\ FallbackFinds(r)
  /\ Answer(r, Served("l3", CachedValue(exact, ExactKey(in[r]))))
  /\ exact' = Promote(exact, ExactKey(in[r]))
  /\ Goto(r, "capture")
  /\ UNCHANGED <<in, attempts, sent, vec, outcome, vectors, inserts, now, seen,
                 delivered, health>>

BadGateway(r) ==
  /\ pc[r] = "fallback"
  /\ ~FallbackFinds(r)
  /\ Answer(r, Response(502, "l3", r, "error"))
  /\ Goto(r, "capture")
  /\ UNCHANGED <<in, attempts, sent, vec, outcome, caches, now, seen, delivered,
                 health>>

-----------------------------------------------------------------------------
(* Layer 1, on the way out: store successful responses.                    *)

\* Mutant: the answer is stored under another key than it is looked up with.
MutantStoreExact(r, answer) ==
  exact' = Put(exact, [ExactKey(in[r]) EXCEPT !.ns = "native"], answer, ExactCapacity)

StoreExact(r, answer) ==
  exact' = Put(exact, ExactKey(in[r]), answer, ExactCapacity)

\* Mutant: the status of the response is not looked at.
MutantCapture(r) ==
  /\ pc[r] = "capture"
  /\ IF UsesExact(r) THEN StoreExact(r, reply[r].body) ELSE UNCHANGED exact
  /\ Goto(r, IF vec[r] THEN "insert" ELSE "done")
  /\ UNCHANGED <<in, attempts, sent, vec, outcome, reply, vectors, inserts, now,
                 seen, delivered, health>>

Capture(r) ==
  /\ pc[r] = "capture"
  /\ IF reply[r].status = 200 /\ UsesExact(r)
       THEN StoreExact(r, reply[r].body) ELSE UNCHANGED exact
  /\ Goto(r, IF reply[r].status = 200 /\ vec[r] THEN "insert" ELSE "done")
  /\ UNCHANGED <<in, attempts, sent, vec, outcome, reply, vectors, inserts, now,
                 seen, delivered, health>>

NewEntry(r) ==
  [input |-> SemanticInput(in[r]), answer |-> reply[r].body,
   scope |-> in[r].scope, created |-> now, slot |-> inserts]

InsertVector(r) ==
  /\ pc[r] = "insert"
  /\ vectors' = Insert(vectors, NewEntry(r), now, VectorCapacity)
  /\ inserts' = inserts + 1
  /\ Goto(r, "done")
  /\ UNCHANGED <<in, attempts, sent, vec, outcome, reply, exact, now, seen,
                 delivered, health>>

-----------------------------------------------------------------------------
(* The MCP store handler: exact cache first, then embed, then vector cache. *)

McpStore(r) ==
  /\ pc[r] = "store"
  /\ Answer(r, Response(200, "mcp", r, "mcp"))
  /\ StoreExact(r, [origin |-> r, by |-> "mcp"])
  /\ Goto(r, "store_embed")
  /\ UNCHANGED <<in, attempts, sent, vec, outcome, vectors, inserts, now, seen,
                 delivered, health>>

McpEmbed(r) ==
  /\ pc[r] = "store_embed"
  /\ \/ vec' = [vec EXCEPT ![r] = TRUE] /\ Goto(r, "insert")
     \/ UNCHANGED vec /\ Goto(r, "done")
  /\ UNCHANGED <<in, attempts, sent, outcome, reply, caches, now, seen, delivered,
                 health>>

-----------------------------------------------------------------------------
\* The client disconnects and the future of its request is dropped.
Cancel(r) ==
  /\ pc[r] \notin {"idle", "done", "cancelled"}
  /\ Goto(r, "cancelled")
  /\ UNCHANGED <<in, attempts, sent, vec, outcome, reply, caches, now, seen,
                 delivered, health>>

Tick ==
  /\ now < MaxTime
  /\ now' = now + 1
  /\ UNCHANGED <<local, caches, seen, delivered, health>>

Step(r) ==
  \/ ExactHit(r) \/ ExactMiss(r) \/ Embed(r) \/ SemanticHit(r) \/ SemanticMiss(r)
  \/ Deflectable(r) \/ SlmAnswer(r) \/ FallThrough(r) \/ Optimize(r)
  \/ Refuse(r) \/ CallUpstream(r) \/ UpstreamOk(r) \/ UpstreamRetryable(r)
  \/ UpstreamFailed(r) \/ StaleFallback(r) \/ BadGateway(r)
  \/ Capture(r) \/ InsertVector(r) \/ McpStore(r) \/ McpEmbed(r)

\* Every request has been dealt with.
Quiescent ==
  /\ \A r \in Requests : pc[r] \in {"done", "cancelled"}
  /\ UNCHANGED vars

Next ==
  \/ \E r \in Requests : Arrive(r) \/ Step(r) \/ Cancel(r)
  \/ Tick
  \/ Quiescent

\* The runtime polls every live request, every embedding ends, and every HTTP
\* call is answered or ended by the client's timeout (l3_timeout_secs).
Fairness == \A r \in Requests : WF_vars(Step(r))

Spec == Init /\ [][Next]_vars
FairSpec == Spec /\ Fairness
-----------------------------------------------------------------------------
(* Properties.                                                             *)

ExactEntries == [key : {ExactKey(q) : q \in Inputs}, val : Answers]
VectorEntries ==
  [input : {SemanticInput(q) : q \in Inputs}, answer : Answers, scope : Scopes,
   created : 0 .. MaxTime, slot : Nat]
Replies ==
  {NoReply, NotFound} \cup
  [status : {200, 400, 502, 503}, layer : {"none", "l1a", "l1b", "l2", "l3", "mcp"},
   body : Answers]

\* Every variable holds a value of its type, no request makes more attempts
\* than the retry policy allows, and no entry lies in the future.
TypeOK ==
  /\ pc \in [Requests -> PCs]
  /\ in \in [Requests -> Inputs]
  /\ attempts \in [Requests -> 0 .. MaxAttempts]
  /\ sent \in [Requests -> {"asis", "crunched", "ref"}]
  /\ vec \in [Requests -> BOOLEAN]
  /\ outcome \in [Requests -> {"none", "ok", "failed"}]
  /\ reply \in [Requests -> Replies]
  /\ exact \in Seq(ExactEntries)
  /\ vectors \in SUBSET VectorEntries
  /\ inserts \in Nat /\ now \in 0 .. MaxTime
  /\ seen \in [Scopes \ {NoScope} -> Contexts]
  /\ delivered \in SUBSET (Scopes \X Contexts)
  /\ health \in [requests : Nat, errors : Nat]

\* MCP handlers and plain-text bodies are keyed by the bare prompt.
BarePrompt(q) == q.route \in McpRoutes \/ q.form = "text"

SameFormat(p, q) ==
  p.route = q.route \/ {p.route, q.route} \subseteq {"native"} \cup McpRoutes

\* p and q ask the same thing of the same model in the same session through
\* endpoints of one format.
SameRequest(p, q) ==
  /\ SameFormat(p, q)
  /\ p.scope = q.scope
  /\ p.question = q.question /\ p.tooling = q.tooling
  /\ "text" \in {p.sys, q.sys} => p.ctx = q.ctx
  /\ BarePrompt(p) = BarePrompt(q)
  /\ ~BarePrompt(p) => ResolvedModel(p) = ResolvedModel(q)

\* What q asks may answer p through the semantic cache: same session, tools on
\* neither side, and questions the embedder calls similar.
SemanticallyClose(p, q) ==
  /\ q.scope = p.scope
  /\ SemanticCacheEnabled(p) /\ SemanticCacheEnabled(q)
  /\ Score(SemanticInput(p), SemanticInput(q)) >= Threshold

\* p may be given what was produced for q, directly or through a stored request.
MayShare(p, q) ==
  \E x \in Inputs : SameRequest(x, q) /\ (SameRequest(p, x) \/ SemanticallyClose(p, x))

\* Whatever mixture of hits, captures, stale fallbacks and MCP stores led to
\* it, a request that is answered 200 gets an answer produced for the same
\* request, or for one at a single similarity hop from it; an error body is
\* never served as an answer (src/middleware/cache.rs:308).
AnswersJustified ==
  \A r \in Requests : reply[r].status = 200 =>
    /\ reply[r].body.by # "error"
    /\ \E m \in Requests :
         /\ SameRequest(in[m], in[reply[r].body.origin])
         /\ SameRequest(in[r], in[m]) \/ SemanticallyClose(in[r], in[m])

\* "One endpoint never returns another endpoint's response schema" (docs-site
\* concepts/deflection-stack.md:35).  For the exact cache this follows from
\* the key; for the semantic cache it holds as long as the embedder keeps
\* texts of different namespaces apart, as MCScore does.
OwnFormat ==
  \A r \in Requests : reply[r].status = 200 =>
    SameFormat(in[r], in[reply[r].body.origin])

\* A request of a session is only ever answered from that session, and a
\* request without one only from requests without one (docs-site
\* configuration/reference.md:70).
SessionIsolation ==
  \A r \in Requests : reply[r].status = 200 =>
    in[reply[r].body.origin].scope = in[r].scope

\* Neither cache outgrows its capacity or holds a key twice, and the first
\* entry of the vector cache, the one insert evicts, is the oldest.
CachesWellFormed ==
  /\ Len(exact) <= ExactCapacity /\ Cardinality(vectors) <= VectorCapacity
  /\ \A i, j \in DOMAIN exact : exact[i].key = exact[j].key => i = j
  /\ \A e, f \in vectors : e.slot < f.slot => e.created <= f.created
  /\ \A e, f \in vectors : e.slot = f.slot => e = f

\* The provider's health counts every concluded retry loop once, whether or
\* not a stale entry hid the failure from the client or the client left, and
\* a 502 or a fresh cloud answer only ever reflects the loop's own outcome.
HealthAccounts ==
  /\ health.requests = Cardinality({r \in Requests : outcome[r] # "none"})
  /\ health.errors = Cardinality({r \in Requests : outcome[r] = "failed"})
  /\ \A r \in Requests :
       /\ reply[r].status = 502 => outcome[r] = "failed"
       /\ reply[r].body = [origin |-> r, by |-> "cloud"] => outcome[r] = "ok"

\* A step calls upstream only for a request whose retry loop is still open,
\* never in offline mode, and never beyond the attempts of the retry policy.
UpstreamDiscipline ==
  [][\A r \in Requests : attempts'[r] # attempts[r] =>
       /\ ~OfflineMode /\ attempts'[r] = attempts[r] + 1
       /\ attempts'[r] <= MaxAttempts
       /\ outcome[r] = "none" /\ reply[r] = NoReply]_vars

GivenTo(r) ==
  IF reply[r].status = 0 THEN [state |-> "waiting", from |-> "none"]
  ELSE IF reply[r].status = 200
         THEN [state |-> "answered", from |-> reply[r].body.origin]
  ELSE [state |-> "refused", from |-> "none"]

\* The requests whose answers a cache holds.
KeptAnswers == {a.origin : a \in Values(exact) \cup {e.answer : e \in vectors}}

Promised ==
  INSTANCE Deflection WITH
    given <- [r \in Requests |-> GivenTo(r)],
    kept  <- KeptAnswers

\* All layers and both caches together keep the promise of a deflection stack:
\* a request is answered once, from its own work or from an answer a cache
\* holds at that moment; a cache takes in only what a client has been answered
\* with, never an error, and a lookup takes nothing out.
ImplementsDeflection == Promised!Spec

\* p asks again what q has asked, and writes it the same way.
AsksAgain(p, q) == SameRequest(p, q) /\ p.form = q.form /\ p.sys = q.sys

\* An agent loop is trapped: once a client has been given an answer, by whatever
\* layer, a request that arrives later and asks again what the answer was
\* produced for makes no upstream call.  Holds when the exact cache is in use
\* and has room for every key.  (A request that a similar one has answered is
\* not stored itself; its repeat may have to go upstream when that has expired.)
Deflected(r, s) ==
  [](/\ pc[r] = "idle" /\ pc[s] = "done" /\ reply[s].status = 200
     /\ AsksAgain(in[r], in[reply[s].body.origin])
     => [](attempts[r] = 0))
RepeatsDeflected == \A r, s \in Requests : Deflected(r, s)

\* Every request that arrives is answered, unless its client leaves first.
EveryRequestEnds ==
  \A r \in Requests : Arrived(r) ~> pc[r] \in {"done", "cancelled"}

\* What the text of the reference says ("instructions unchanged ... follow the
\* same instructions as before", src/compression/stages/dedup.rs:33): the
\* model has been given the instructions a request refers to.
ReferenceAfterDelivery ==
  \A r \in Requests : sent[r] = "ref" => <<in[r].scope, in[r].ctx>> \in delivered
=============================================================================
